---- MODULE Spec2Model ----
(***************************************************************************)
(* Model of the APK middleware replacement server (py_server_demo.py):     *)
(* the in-memory task table, the file-backed index with source/derived MD5 *)
(* resolution and 10-entry retention, and process_apk_task as it runs on   *)
(* the asyncio event loop (a coroutine keeps the loop until it awaits; the *)
(* only await of the pipeline is download_file).                           *)
(***************************************************************************)
EXTENDS Integers, Sequences, FiniteSets, TLC

(***************************************************************************)
(* Bounds of the model.                                                    *)
(***************************************************************************)
\* number of submissions accepted in one run of the service
MaxTasks == 2
\* wall-clock readings are 1..MaxTime
MaxTime == 2
\* number of index entries written by earlier runs of the service, if any
MaxPrior == 10
\* number of failures of the build tools and of the index file's storage
MaxFaults == 1

\* index updates in a run of QuerySpec
MaxRecords == 3

(***************************************************************************)
(* Optional values (Python None / a value).                                *)
(***************************************************************************)
None == <<>>
Some(v) == <<v>>
IsNone(o) == o = <<>>
IsSome(o) == o # <<>>
Get(o) == o[1]

Range(s) == {s[i] : i \in 1..Len(s)}

(***************************************************************************)
(* Files: native libraries and application packages.                       *)
(***************************************************************************)
ARCHS == {"arm64-v8a", "armeabi-v7a"}
SoNames == {"libA.so", "libB.so"}
\* the path lib/<arch>/<so_name> inside a package
Slot(arch, so_name) == arch \o "/" \o so_name
Slots == {Slot(a, n) : a \in ARCHS, n \in SoNames}
\* no file at a path
NoFile == "absent"
\* contents of library files that occur (originals and remote ones)
SoContents == {"a0", "a1", "x64", "y64", "z32", "junk"}

\* output of the `file` command reduced to what detect_so_architecture reads
FileOutput(so) ==
    CASE so \in {"a0", "a1", "x64", "y64"} -> "elf 64-bit lsb shared object, arm aarch64"
      [] so = "z32" -> "elf 32-bit lsb shared object, arm, eabi5"
      [] OTHER -> "data"

\* variant of detect_so_architecture that reports every ELF file as arm64-v8a
detect_so_architecture_AnyElf(so) ==
    IF FileOutput(so) = "data" THEN None ELSE Some("arm64-v8a")


detect_so_architecture(so) ==
    LET output == FileOutput(so) IN
    IF output = "elf 64-bit lsb shared object, arm aarch64" THEN Some("arm64-v8a")
    ELSE IF output = "elf 32-bit lsb shared object, arm, eabi5" THEN Some("armeabi-v7a")
    ELSE None

\* an application package: whether apktool can read it, whether it carries
\* this service's signature, and the library in each lib/<arch>/<name> slot
EmptyLibs == [s \in Slots |-> NoFile]
Apk(ok, resigned, libs) == [ok |-> ok, resigned |-> resigned, libs |-> libs]
Apk1 == Apk(TRUE, FALSE, [EmptyLibs EXCEPT ![Slot("arm64-v8a", "libA.so")] = "a0"])
Apk2 == Apk(TRUE, FALSE, [EmptyLibs EXCEPT ![Slot("arm64-v8a", "libA.so")] = "a1"])
ApkBad == Apk(FALSE, FALSE, EmptyLibs)

\* md5sum of a library file: digest equality is content equality
md5sumSo(so) == "md5:" \o so

\* md5sum of a package file
md5sum(apk) ==
    "md5:" \o (IF apk.ok THEN "apk" ELSE "bad") \o (IF apk.resigned THEN "+sig" ELSE "")
           \o "/" \o apk.libs[Slot("arm64-v8a", "libA.so")]
           \o "/" \o apk.libs[Slot("arm64-v8a", "libB.so")]
           \o "/" \o apk.libs[Slot("armeabi-v7a", "libA.so")]
           \o "/" \o apk.libs[Slot("armeabi-v7a", "libB.so")]

(***************************************************************************)
(* The index (load_index's "new structure"): source_md5 -> entry.          *)
(***************************************************************************)
RetentionLimit == 10

EmptyIndex == << >>

IndexHas(index, md5) == md5 \in DOMAIN index

\* a client may spell an md5 in upper case; the digests md5sum computes are
\* lower case
Upper(md5) == "UPPER:" \o md5
ClientDigests == {md5sum(Apk1), md5sum(Apk2), md5sum(ApkBad)}

\* str.lower()
Lower(md5) ==
    IF \E h \in ClientDigests : md5 = Upper(h)
    THEN CHOOSE h \in ClientDigests : md5 = Upper(h)
    ELSE md5

\* the scan of find_source_md5 over the keys in `keys`
FoundSources(index, keys, md5) ==
    {k \in keys : md5 \in Range(index[k].derived_md5s)}

\* variant of find_source_md5 that answers a collision with one of the sources
find_source_md5_PicksOne(index, md5) ==
    LET md5_lower == Lower(md5)
        found_sources == FoundSources(index, DOMAIN index, md5_lower) IN
    IF md5_lower \in DOMAIN index THEN Some(md5_lower)
    ELSE IF found_sources # {} THEN Some(CHOOSE k \in found_sources : TRUE)
    ELSE None


\* variant of find_source_md5 that scans the derived md5s before it looks
\* at the keys
find_source_md5_DerivedFirst(index, md5) ==
    LET md5_lower == Lower(md5)
        found_sources == FoundSources(index, DOMAIN index, md5_lower) IN
    IF Cardinality(found_sources) = 1 THEN Some(CHOOSE k \in found_sources : TRUE)
    ELSE IF Cardinality(found_sources) > 1 THEN None
    ELSE IF md5_lower \in DOMAIN index THEN Some(md5_lower)
    ELSE None


find_source_md5(index, md5) ==
    LET md5_lower == Lower(md5)
        found_sources == FoundSources(index, DOMAIN index, md5_lower) IN
    IF md5_lower \in DOMAIN index THEN Some(md5_lower)
    ELSE IF Cardinality(found_sources) > 1 THEN None
    ELSE IF Cardinality(found_sources) = 1 THEN Some(CHOOSE k \in found_sources : TRUE)
    ELSE None

get_source_entry(index, md5) ==
    LET source_md5 == find_source_md5(index, md5) IN
    IF IsSome(source_md5) THEN Some(index[Get(source_md5)]) ELSE None

RECURSIVE FirstMax(_, _, _)
\* Python max(seq, key=timestamp): the first element with the largest key
FirstMax(seq, i, best) ==
    IF i > Len(seq) THEN best
    ELSE FirstMax(seq, i + 1, IF seq[i].timestamp > best.timestamp THEN seq[i] ELSE best)

PyMax(seq) == FirstMax(seq, 2, seq[1])

get_latest_cached_task(index, file_md5, so_architecture) ==
    LET source_entry == get_source_entry(index, file_md5) IN
    IF IsNone(source_entry) THEN None
    ELSE LET ts == Get(source_entry).tasks IN
         IF ts = <<>> THEN None
         ELSE IF IsSome(so_architecture)
              THEN LET filtered == SelectSeq(ts, LAMBDA t : t.so_architecture = Get(so_architecture)) IN
                   IF filtered # <<>> THEN Some(PyMax(filtered)) ELSE None
              ELSE Some(PyMax(ts))

RECURSIVE InsertDesc(_, _)
\* insert e behind every element whose timestamp is >= e's (stable)
InsertDesc(sorted, e) ==
    IF sorted = <<>> THEN <<e>>
    ELSE IF Head(sorted).timestamp >= e.timestamp
         THEN <<Head(sorted)>> \o InsertDesc(Tail(sorted), e)
         ELSE <<e>> \o sorted

RECURSIVE SortDesc(_)
\* list.sort(key=timestamp, reverse=True): stable, equal keys keep their order
SortDesc(seq) ==
    IF seq = <<>> THEN <<>>
    ELSE InsertDesc(SortDesc(SubSeq(seq, 1, Len(seq) - 1)), seq[Len(seq)])

RECURSIVE KeptDerived(_, _)
\* the distinct file_md5_after of the kept tasks; Python builds a set and
\* lists it, the order of that list is not used by any reader
KeptDerived(ts, acc) ==
    IF ts = <<>> THEN acc
    ELSE KeptDerived(Tail(ts),
            IF Head(ts).file_md5_after \in Range(acc) THEN acc
            ELSE Append(acc, Head(ts).file_md5_after))

\* variant of the pruning that keeps the first 10 entries without sorting
Prune_Unsorted(ts) == SubSeq(ts, 1, RetentionLimit)


Prune(ts) == SubSeq(SortDesc(ts), 1, RetentionLimit)

\* variant of add_task_to_index that starts a new entry for the source md5
\* on every call
add_task_to_index_NewEntry(index, source_md5, task_entry, derived_md5) ==
    [k \in DOMAIN index \cup {source_md5} |->
        IF k = source_md5
        THEN [source_md5 |-> source_md5, derived_md5s |-> <<derived_md5>>,
              tasks |-> <<task_entry>>]
        ELSE index[k]]


\* variant of add_task_to_index that prunes the tasks and leaves derived_md5s
\* as it is
add_task_to_index_NoCleanup(index, source_md5, task_entry, derived_md5) ==
    LET index1 == IF source_md5 \in DOMAIN index THEN index
                  ELSE index @@ (source_md5 :> [source_md5 |-> source_md5,
                                                derived_md5s |-> <<>>,
                                                tasks |-> <<>>])
        e1 == index1[source_md5]
        derived1 == IF derived_md5 \notin Range(e1.derived_md5s)
                    THEN Append(e1.derived_md5s, derived_md5) ELSE e1.derived_md5s
        tasks1 == Append(e1.tasks, task_entry)
        e2 == IF Len(tasks1) > RetentionLimit
              THEN [e1 EXCEPT !.tasks = Prune(tasks1), !.derived_md5s = derived1]
              ELSE [e1 EXCEPT !.tasks = tasks1, !.derived_md5s = derived1]
    IN [index1 EXCEPT ![source_md5] = e2]


add_task_to_index(index, source_md5, task_entry, derived_md5) ==
    LET index1 == IF source_md5 \in DOMAIN index THEN index
                  ELSE index @@ (source_md5 :> [source_md5 |-> source_md5,
                                                derived_md5s |-> <<>>,
                                                tasks |-> <<>>])
        e1 == index1[source_md5]
        derived1 == IF derived_md5 \notin Range(e1.derived_md5s)
                    THEN Append(e1.derived_md5s, derived_md5) ELSE e1.derived_md5s
        tasks1 == Append(e1.tasks, task_entry)
        e2 == IF Len(tasks1) > RetentionLimit
              THEN [e1 EXCEPT !.tasks = Prune(tasks1),
                              !.derived_md5s = KeptDerived(Prune(tasks1), <<>>)]
              ELSE [e1 EXCEPT !.tasks = tasks1, !.derived_md5s = derived1]
    IN [index1 EXCEPT ![source_md5] = e2]

(***************************************************************************)
(* The index file on disk.                                                 *)
(***************************************************************************)
\* INDEX_FILE: absent, holding a JSON document, or left truncated by a write
\* that failed after open(INDEX_FILE, "w")
IndexFile(exists, readable, data) == [exists |-> exists, readable |-> readable, data |-> data]

\* the entries load_index recognises as the current shape
IsNewFormat(entry) == {"source_md5", "derived_md5s"} \subseteq DOMAIN entry

\* a JSON list in the index document (a JSON object is a record)
JList(items) == [json_list |-> items]

\* isinstance(entry, list)
IsList(entry) == DOMAIN entry = {"json_list"}

\* old format, a single task: a dict with the key task_id
IsTask(entry) == ~IsNewFormat(entry) /\ "task_id" \in DOMAIN entry

\* t.get("file_md5_after") is there and not empty
HasOutput(t) == "file_md5_after" \in DOMAIN t /\ t.file_md5_after # ""

RECURSIVE Distinct(_, _)
\* the values of a sequence, each once, in the order of first occurrence
Distinct(seq, acc) ==
    IF seq = <<>> THEN acc
    ELSE Distinct(Tail(seq), IF Head(seq) \in Range(acc) THEN acc ELSE Append(acc, Head(seq)))

\* the file_md5_after of the tasks of a list that have one
OutputsOf(items) ==
    LET with == SelectSeq(items, HasOutput) IN [i \in 1..Len(with) |-> with[i].file_md5_after]

\* variant of the migration that takes the output md5 of a single task
\* whenever the key is there, empty or not
Migrated_AnyOutput(md5, entry) ==
    IF IsNewFormat(entry) THEN entry
    ELSE IF IsTask(entry)
    THEN [source_md5 |-> md5,
          derived_md5s |-> IF "file_md5_after" \in DOMAIN entry
                           THEN <<entry.file_md5_after>> ELSE <<>>,
          tasks |-> <<entry>>]
    ELSE [source_md5 |-> md5,
          derived_md5s |-> Distinct(OutputsOf(entry.json_list), <<>>),
          tasks |-> entry.json_list]

\* one entry of the document as load_index returns it (lines 166-183); the
\* distinct md5s of a list are taken here in the order of first occurrence,
\* list(set(...)) can give them in any order (see LoadResults)
Migrated(md5, entry) ==
    IF IsNewFormat(entry) THEN entry
    ELSE IF IsTask(entry)
    THEN [source_md5 |-> md5,
          derived_md5s |-> IF HasOutput(entry) THEN <<entry.file_md5_after>> ELSE <<>>,
          tasks |-> <<entry>>]
    ELSE [source_md5 |-> md5,
          derived_md5s |-> Distinct(OutputsOf(entry.json_list), <<>>),
          tasks |-> entry.json_list]

\* load_index when json.load succeeds
load_index(file) ==
    IF file.exists
    THEN [md5 \in {k \in DOMAIN file.data :
                      IsNewFormat(file.data[k]) \/ IsTask(file.data[k]) \/ IsList(file.data[k])}
            |-> Migrated(md5, file.data[md5])]
    ELSE EmptyIndex

\* the orders list(set(...)) can give to the values of a sequence
Orders(seq) ==
    {o \in [1..Len(seq) -> Range(seq)] : \A i, j \in 1..Len(seq) : o[i] = o[j] => i = j}

\* every index load_index can return for a document
LoadResults(file) ==
    LET index == load_index(file)
        lists == {k \in DOMAIN index : IsList(file.data[k])}
    IN {[k \in DOMAIN index |-> IF k \in lists
                                 THEN [index[k] EXCEPT !.derived_md5s = order[k]]
                                 ELSE index[k]] :
           order \in {f \in [lists -> UNION {Orders(index[k].derived_md5s) : k \in lists}] :
                        \A k \in lists : f[k] \in Orders(index[k].derived_md5s)}}

\* json.load raises on a truncated document
LoadRaises(file) == file.exists /\ ~file.readable

\* save_index when open and json.dump succeed
save_index(index) == IndexFile(TRUE, TRUE, index)

\* save_index when json.dump fails after open(..., "w") truncated the file
SaveTruncated == IndexFile(TRUE, FALSE, EmptyIndex)

(***************************************************************************)
(* Requests.                                                               *)
(***************************************************************************)
\* so_files after json.loads: the (name, url) pairs in the order of the JSON
\* object
Pair(name, url) == <<name, url>>
M_one == <<Pair("libA.so", "http://x64")>>
M_other == <<Pair("libA.so", "http://y64")>>
M_late == <<Pair("libA.so", "http://x64"), Pair("libB.so", "http://bad")>>
M_mis == <<Pair("libA.so", "http://x64"), Pair("libB.so", "http://z32")>>
M_junk == <<Pair("libA.so", "http://x64"), Pair("libB.so", "http://junk")>>
M_blank == <<Pair("libA.so", ""), Pair("libB.so", "  ")>>
M_mixed == <<Pair("libA.so", "  "), Pair("libB.so", "http://x64")>>
M_empty == <<>>
M_both == <<Pair("libA.so", "http://x64"), Pair("libB.so", "http://y64")>>

\* str.strip() on the urls of the model
Strip(url) == IF url \in {"", " ", "  "} THEN "" ELSE url

\* `not so_url or not so_url.strip()`
IsBlank(url) == url = "" \/ Strip(url) = ""

\* what the remote side serves for a url: download_file's result and the
\* bytes it writes
Remote(url) ==
    CASE url = "http://x64" -> Some("x64")
      [] url = "http://y64" -> Some("y64")
      [] url = "http://z32" -> Some("z32")
      [] url = "http://junk" -> Some("junk")
      [] OTHER -> None

\* the result of running the pipeline of this service on apk with the slots
\* in `libs` (Apk1 with libA.so replaced by x64)
Out1 == Apk(TRUE, TRUE, [Apk1.libs EXCEPT ![Slot("arm64-v8a", "libA.so")] = "x64"])
Out2 == Apk(TRUE, TRUE, [Apk1.libs EXCEPT ![Slot("arm64-v8a", "libA.so")] = "y64"])

UploadReq(file, so_files, so_architecture, pkg_name) ==
    [file |-> file, filename |-> "app.apk", so_files |-> so_files,
     so_architecture |-> so_architecture, pkg_name |-> pkg_name, md5 |-> None]

UploadRequests ==
    { UploadReq(Apk1, M_one, "arm64-v8a", "p"),
      UploadReq(Apk1, M_other, "arm64-v8a", "p"),
      UploadReq(Apk1, M_late, "arm64-v8a", "p"),
      UploadReq(Apk2, M_one, "arm64-v8a", "p"),
      UploadReq(Apk1, M_mis, "arm64-v8a", "q"),
      UploadReq(Apk1, M_junk, "arm64-v8a", "q"),
      UploadReq(Apk1, M_blank, "armeabi-v7a", "q"),
      UploadReq(Apk1, M_mixed, "arm64-v8a", "q"),
      UploadReq(ApkBad, M_one, "arm64-v8a", "p"),
      UploadReq(Out1, M_other, "arm64-v8a", "p"),
      UploadReq(Apk1, M_one, "x86", "p"),
      UploadReq(Apk1, M_empty, "arm64-v8a", "p") }

ExistReq(md5, so_files, so_architecture, pkg_name) ==
    [md5 |-> md5, so_files |-> so_files, so_architecture |-> so_architecture,
     pkg_name |-> pkg_name]

ExistRequests ==
    { ExistReq(md5sum(Out1), M_one, "arm64-v8a", "p"),
      ExistReq(Upper(md5sum(Apk1)), M_other, "arm64-v8a", "p"),
      ExistReq(md5sum(ApkBad), M_one, "arm64-v8a", "p"),
      ExistReq(md5sum(Apk1), M_one, "x86", "p"),
      ExistReq(md5sum(Apk1), M_empty, "arm64-v8a", "p") }

(***************************************************************************)
(* State.                                                                  *)
(***************************************************************************)
VARIABLES
    tasks,        \* the in-memory task table: task_id -> TaskInfo
    next_id,      \* number of task ids generated (uuid4 never repeats)
    args,         \* task_id -> arguments of its process_apk_task call
    proc,         \* task_id -> position and locals of its process_apk_task
    running,      \* the task whose coroutine holds the event loop, 0 if none
    index_file,   \* INDEX_FILE
    uploads,      \* UPLOAD_DIR: file id -> [name, data]
    processed,    \* PROCESSED_DIR: task_id -> signed package
    workdir,      \* TEMP_DIR: work_name -> working area
    clock,        \* what time.time() returns
    faults,       \* number of tool and storage failures so far
    log,          \* history: task_id -> the stages its pipeline executed
    appended,     \* history: source_md5 -> entries ever saved under it
    query,        \* the last read request served since the index was written
    response      \* the response to it

vars == <<tasks, next_id, args, proc, running, index_file, uploads,
          processed, workdir, clock, faults, log, appended, query, response>>

PENDING == "pending"
PROCESSING == "processing"
COMPLETE == "complete"
FAILED == "failed"

ENABLE_PKGNAME_BASED_PATH == TRUE
DOWNLOAD_BASE_PATH == ""
SMB_BASE_PATH == "\\\\10.8.24.59\\a\\"

TaskIds == DOMAIN tasks

\* TaskInfo(...) as upload_apk and exist_pkg construct it
TaskInfo(task_id, filename, pkg_name, file_md5, so_architecture) ==
    [task_id |-> task_id, status |-> PENDING, filename |-> filename,
     pkg_name |-> pkg_name, file_md5_before |-> file_md5, file_md5_after |-> None,
     so_md5_before |-> None, so_md5_after |-> None,
     so_architecture |-> so_architecture, real_so_architecture |-> None,
     start_process_timestamp |-> None, end_process_timestamp |-> None,
     total_consume_seconds |-> None, signed_apk_download_path |-> None,
     smb_path |-> None, reason |-> None]

\* the arguments of background_tasks.add_task(process_apk_task, ...)
Args(apk_path, so_files, so_architecture, pkg_name, file_md5) ==
    [apk_path |-> apk_path, so_files |-> so_files, so_architecture |-> so_architecture,
     pkg_name |-> pkg_name, file_md5 |-> file_md5]

\* position and locals of a process_apk_task call: the stage to run next, the
\* position of the so_files loop, so_replacement_info, index, task_entry and
\* the exception on its way to the except clause
Proc(pc) == [pc |-> pc, pos |-> 1, so_replacement_info |-> <<>>, index |-> None,
             task_entry |-> None, exc |-> None]

\* an exception message, with the so file it names ("" if none)
Reason(msg, so_name) == [msg |-> msg, so_name |-> so_name]

work_name(a) ==
    IF ENABLE_PKGNAME_BASED_PATH THEN a.pkg_name \o "_" \o a.file_md5 ELSE a.file_md5

NewWorkArea == [extracted |-> None, downloaded |-> [n \in SoNames |-> NoFile],
                unsigned |-> None, aligned |-> None]

\* work_path.mkdir(exist_ok=True)
Mkdir(wd, w) == IF w \in DOMAIN wd THEN wd ELSE wd @@ (w :> NewWorkArea)

\* valid_so_files: the entries with a non-blank url
valid_so_files(so_files) == SelectSeq(so_files, LAMBDA p : ~IsBlank(p[2]))

(***************************************************************************)
(* What earlier runs of the service left on disk: k completed tasks for    *)
(* Apk1, recorded with add_task_to_index.                                  *)
(***************************************************************************)
PriorId(i) == 100 + i

PriorEntry(i) ==
    [task_id |-> PriorId(i), pkg_name |-> "p", so_architecture |-> "arm64-v8a",
     signed_apk_path |-> PriorId(i),
     file_md5_after |-> md5sum(IF i % 2 = 1 THEN Out1 ELSE Out2),
     timestamp |-> ((i - 1) % MaxTime) + 1]

RECURSIVE PriorIndex(_)
PriorIndex(k) ==
    IF k = 0 THEN EmptyIndex
    ELSE add_task_to_index(PriorIndex(k - 1), md5sum(Apk1), PriorEntry(k),
                           md5sum(IF k % 2 = 1 THEN Out1 ELSE Out2))

PriorCounts == {0, MaxPrior}

\* a file of UPLOAD_DIR, named f"{prefix}_{filename}"
StoredFile(prefix, filename, data) == [prefix |-> prefix, filename |-> filename, data |-> data]

Init ==
    /\ tasks = << >>
    /\ next_id = 0
    /\ args = << >>
    /\ proc = << >>
    /\ running = 0
    /\ \E k \in PriorCounts :
         /\ index_file = IF k = 0 THEN IndexFile(FALSE, TRUE, EmptyIndex)
                         ELSE save_index(PriorIndex(k))
         /\ uploads = [i \in {PriorId(j) : j \in 1..k} |-> StoredFile(i, "app.apk", Apk1)]
         /\ processed = [i \in {PriorId(j) : j \in 1..k} |->
                            IF (i - 100) % 2 = 1 THEN Out1 ELSE Out2]
         /\ appended = IF k = 0 THEN << >>
                       ELSE md5sum(Apk1) :> {PriorEntry(j) : j \in 1..k}
    \* working areas of earlier runs are rewritten before they are read
    /\ workdir = << >>
    /\ clock = 1
    /\ faults = 0
    /\ log = << >>
    /\ query = None
    /\ response = None

(***************************************************************************)
(* Endpoints.  Each handler is an async def without an await: it runs on   *)
(* the event loop from start to end.                                       *)
(***************************************************************************)
\* Path.name of a file of UPLOAD_DIR
FileName(f) == ToString(f.prefix) \o "_" \o f.filename

\* the md5 format check of upload_apk, exist_pkg and check_md5
ValidMd5Format(md5) == md5 # "not-an-md5"

\* UPLOAD_DIR.glob("*.apk")
IsApkName(filename) == filename = "app.apk"

\* the first file of UPLOAD_DIR.glob("*.apk") whose md5sum is source_md5
\* (directory order taken as creation order)
MatchingUploads(source_md5) ==
    {f \in DOMAIN uploads : IsApkName(uploads[f].filename) /\ md5sum(uploads[f].data) = source_md5}

FirstMatching(source_md5) ==
    CHOOSE f \in MatchingUploads(source_md5) : \A g \in MatchingUploads(source_md5) : f <= g

\* tasks[task_id] = task; background_tasks.add_task(process_apk_task, ...)
CreateTask(task_id, task, a) ==
    /\ tasks' = tasks @@ (task_id :> task)
    /\ args' = args @@ (task_id :> a)
    /\ proc' = proc @@ (task_id :> Proc("queued"))
    /\ log' = log @@ (task_id :> <<>>)

\* variant of upload_apk without the check of so_architecture
upload_apk_AnyArch(r) ==
    /\ running = 0
    /\ LET task_id == next_id + 1
           calculated_md5 == md5sum(r.file)
           stored == uploads @@ (task_id :> StoredFile(task_id, r.filename, r.file))
       IN
       IF r.so_files = <<>> THEN UNCHANGED vars
       ELSE IF IsSome(r.md5) /\ ~ValidMd5Format(Get(r.md5)) THEN UNCHANGED vars
       ELSE IF IsSome(r.md5) /\ calculated_md5 # Lower(Get(r.md5)) THEN UNCHANGED vars
       ELSE IF LoadRaises(index_file)
            THEN /\ next_id < MaxTasks
                 /\ uploads' = stored
                 /\ next_id' = task_id
                 /\ UNCHANGED <<tasks, args, proc, running, index_file,
                                processed, workdir, clock, faults, log, appended,
                                query, response>>
       ELSE LET file_md5 == IF IsSome(r.md5) THEN Lower(Get(r.md5)) ELSE calculated_md5 IN
            /\ next_id < MaxTasks
            /\ uploads' = stored
            /\ next_id' = task_id
            /\ CreateTask(task_id,
                          TaskInfo(task_id, r.filename, r.pkg_name, file_md5, r.so_architecture),
                          Args(task_id, r.so_files, r.so_architecture, r.pkg_name, file_md5))
            /\ UNCHANGED <<running, index_file, processed, workdir, clock, faults, appended,
                                        query, response>>

\* variant of upload_apk that takes the md5 of the client without comparing
\* it with the md5 of the stored file
upload_apk_TrustsMd5(r) ==
    /\ running = 0
    /\ LET task_id == next_id + 1
           calculated_md5 == md5sum(r.file)
           stored == uploads @@ (task_id :> StoredFile(task_id, r.filename, r.file))
       IN
       IF r.so_architecture \notin {"arm64-v8a", "armeabi-v7a"} THEN UNCHANGED vars
       ELSE IF r.so_files = <<>> THEN UNCHANGED vars
       ELSE IF IsSome(r.md5) /\ ~ValidMd5Format(Get(r.md5)) THEN UNCHANGED vars
       ELSE IF LoadRaises(index_file)
            THEN /\ next_id < MaxTasks
                 /\ uploads' = stored
                 /\ next_id' = task_id
                 /\ UNCHANGED <<tasks, args, proc, running, index_file,
                                processed, workdir, clock, faults, log, appended,
                                query, response>>
       ELSE LET file_md5 == IF IsSome(r.md5) THEN Lower(Get(r.md5)) ELSE calculated_md5 IN
            /\ next_id < MaxTasks
            /\ uploads' = stored
            /\ next_id' = task_id
            /\ CreateTask(task_id,
                          TaskInfo(task_id, r.filename, r.pkg_name, file_md5, r.so_architecture),
                          Args(task_id, r.so_files, r.so_architecture, r.pkg_name, file_md5))
            /\ UNCHANGED <<running, index_file, processed, workdir, clock, faults, appended,
                                        query, response>>

upload_apk(r) ==
    /\ running = 0
    /\ LET task_id == next_id + 1
           calculated_md5 == md5sum(r.file)
           stored == uploads @@ (task_id :> StoredFile(task_id, r.filename, r.file))
       IN
       IF r.so_architecture \notin {"arm64-v8a", "armeabi-v7a"} THEN UNCHANGED vars
       ELSE IF r.so_files = <<>> THEN UNCHANGED vars
       ELSE IF IsSome(r.md5) /\ ~ValidMd5Format(Get(r.md5)) THEN UNCHANGED vars
       ELSE IF IsSome(r.md5) /\ calculated_md5 # Lower(Get(r.md5)) THEN UNCHANGED vars
       ELSE IF LoadRaises(index_file)
            THEN /\ next_id < MaxTasks
                 /\ uploads' = stored
                 /\ next_id' = task_id
                 /\ UNCHANGED <<tasks, args, proc, running, index_file,
                                processed, workdir, clock, faults, log, appended,
                                query, response>>
       ELSE LET file_md5 == IF IsSome(r.md5) THEN Lower(Get(r.md5)) ELSE calculated_md5 IN
            /\ next_id < MaxTasks
            /\ uploads' = stored
            /\ next_id' = task_id
            /\ CreateTask(task_id,
                          TaskInfo(task_id, r.filename, r.pkg_name, file_md5, r.so_architecture),
                          Args(task_id, r.so_files, r.so_architecture, r.pkg_name, file_md5))
            /\ UNCHANGED <<running, index_file, processed, workdir, clock, faults, appended,
                                        query, response>>

exist_pkg(r) ==
    /\ running = 0
    /\ LET task_id == next_id + 1
           md5_lower == Lower(r.md5)
       IN
       IF r.so_architecture \notin {"arm64-v8a", "armeabi-v7a"} THEN UNCHANGED vars
       ELSE IF r.so_files = <<>> THEN UNCHANGED vars
       ELSE IF ~ValidMd5Format(r.md5) THEN UNCHANGED vars
       ELSE IF LoadRaises(index_file) THEN UNCHANGED vars
       ELSE LET source_md5 == find_source_md5(load_index(index_file), md5_lower) IN
            IF IsNone(source_md5) THEN UNCHANGED vars
            ELSE IF MatchingUploads(Get(source_md5)) = {} THEN UNCHANGED vars
            ELSE LET original_apk == uploads[FirstMatching(Get(source_md5))] IN
                 /\ next_id < MaxTasks
                 /\ uploads' = uploads @@
                        (task_id :> StoredFile(task_id, original_apk.filename, original_apk.data))
                 /\ next_id' = task_id
                 /\ CreateTask(task_id,
                               TaskInfo(task_id, FileName(original_apk), r.pkg_name,
                                        Get(source_md5), r.so_architecture),
                               Args(task_id, r.so_files, r.so_architecture, r.pkg_name,
                                    Get(source_md5)))
                 /\ UNCHANGED <<running, index_file, processed, workdir, clock, faults, appended,
                                        query, response>>

(***************************************************************************)
(* process_apk_task, one action per stage.  A stage other than the start   *)
(* and the resumption after download_file runs only while its coroutine    *)
(* holds the event loop.                                                   *)
(***************************************************************************)
Logged(t, event) == log' = [log EXCEPT ![t] = Append(@, event)]

\* variant of the scheduling in which a pipeline gives up the event loop
\* after load_index (as it would with an await between load and save)
MayRun_YieldsAfterLoad(t, resuming) ==
    IF resuming
    THEN running = 0 \/ \E u \in TaskIds : proc[u].pc = "add_task"
    ELSE running = t \/ proc[t].pc \in {"add_task", "save_index", "complete", "except"}

\* process_apk_task is an async def run on the event loop: it starts and it
\* resumes after `await download_file` when no other coroutine runs, and
\* between two awaits nothing else runs
MayRun(t, resuming) == IF resuming THEN running = 0 ELSE running = t

At(t, pc) == t \in TaskIds /\ MayRun(t, FALSE) /\ proc[t].pc = pc

Goto(t, pc) == proc' = [proc EXCEPT ![t].pc = pc]

\* process_apk_task returns: its locals are gone
Return(t) == proc' = [proc EXCEPT ![t] = Proc("done")]

\* variant of Raise in which the failing stage is tried again
Raise_Retries(t, reason) == proc' = [proc EXCEPT ![t].exc = Some(reason)]

\* raise Exception(...): control passes to the except clause
Raise(t, reason) == proc' = [proc EXCEPT ![t].pc = "except", ![t].exc = Some(reason)]

\* variant of Begin that leaves the status PENDING
Begin_StaysPending(t) ==
    /\ t \in TaskIds /\ MayRun(t, TRUE) /\ proc[t].pc = "queued"
    /\ running' = t
    /\ tasks' = [tasks EXCEPT ![t].start_process_timestamp = Some(clock)]
    /\ Goto(t, "decode")
    /\ Logged(t, <<"begin", "alone">>)
    /\ UNCHANGED <<next_id, args, index_file, uploads, processed, workdir,
                   clock, faults, appended, query, response>>

\* variant of Begin that does not record the start time
Begin_NoStamp(t) ==
    /\ t \in TaskIds /\ MayRun(t, TRUE) /\ proc[t].pc = "queued"
    /\ running' = t
    /\ tasks' = [tasks EXCEPT ![t].status = PROCESSING]
    /\ Goto(t, "decode")
    /\ Logged(t, <<"begin", IF \E u \in TaskIds : tasks[u].status = PROCESSING
                            THEN "concurrent" ELSE "alone">>)
    /\ UNCHANGED <<next_id, args, index_file, uploads, processed, workdir,
                   clock, faults, appended, query, response>>

\* lines 458-460
Begin(t) ==
    /\ t \in TaskIds /\ MayRun(t, TRUE) /\ proc[t].pc = "queued"
    /\ running' = t
    /\ tasks' = [tasks EXCEPT ![t].status = PROCESSING,
                              ![t].start_process_timestamp = Some(clock)]
    /\ Goto(t, "decode")
    /\ Logged(t, <<"begin", IF \E u \in TaskIds : tasks[u].status = PROCESSING
                            THEN "concurrent" ELSE "alone">>)
    /\ UNCHANGED <<next_id, args, index_file, uploads, processed, workdir,
                   clock, faults, appended, query, response>>

\* lines 471-488: work directory and run_apktool_decode (apktool d -f)
Decode(t) ==
    /\ At(t, "decode")
    /\ LET w == work_name(args[t])
           apk == uploads[args[t].apk_path].data
           wd == Mkdir(workdir, w)
       IN IF apk.ok
          THEN /\ workdir' = [wd EXCEPT ![w].extracted = Some(apk.libs)]
               /\ Goto(t, "validate")
          ELSE /\ workdir' = wd
               /\ Raise(t, Reason("Failed to decode APK", ""))
    /\ Logged(t, <<"decode", "">>)
    /\ UNCHANGED <<tasks, next_id, args, running, index_file, uploads,
                   processed, clock, faults, appended, query, response>>

\* lines 490-504
Validate(t) ==
    /\ At(t, "validate")
    /\ IF valid_so_files(args[t].so_files) = <<>>
       THEN Raise(t, Reason("No valid SO files to process. All URLs are empty.", ""))
       ELSE Goto(t, "loop")
    /\ Logged(t, <<"validate", "">>)
    /\ UNCHANGED <<tasks, next_id, args, running, index_file, uploads,
                   processed, workdir, clock, faults, appended,
                   query, response>>

\* lines 507-519: the head of the download loop up to `await download_file`
Loop(t) ==
    /\ At(t, "loop")
    /\ LET so_files == args[t].so_files
           pos == proc[t].pos
       IN IF pos > Len(so_files)
          THEN Goto(t, "replace") /\ UNCHANGED <<running, log>>
          ELSE IF IsBlank(so_files[pos][2])
          THEN /\ proc' = [proc EXCEPT ![t].pos = pos + 1]
               /\ Logged(t, <<"skip", so_files[pos][1]>>)
               /\ UNCHANGED running
          ELSE /\ Goto(t, "download")
               /\ running' = 0
               /\ Logged(t, <<"download", so_files[pos][1]>>)
    /\ UNCHANGED <<tasks, next_id, args, index_file, uploads, processed,
                   workdir, clock, faults, appended, query, response>>

\* variant of Downloaded that downloads straight into the slot of the
\* extracted tree
Downloaded_IntoSlot(t) ==
    /\ t \in TaskIds /\ MayRun(t, TRUE) /\ proc[t].pc = "download"
    /\ running' = t
    /\ LET so_name == args[t].so_files[proc[t].pos][1]
           so_url == args[t].so_files[proc[t].pos][2]
           w == work_name(args[t])
           s == Slot(args[t].so_architecture, so_name)
       IN IF IsSome(Remote(so_url))
          THEN /\ workdir' = [workdir EXCEPT
                                 ![w].downloaded[so_name] = Get(Remote(so_url)),
                                 ![w].extracted = Some([Get(workdir[w].extracted) EXCEPT ![s] = Get(Remote(so_url))])]
               /\ Goto(t, "verify")
          ELSE /\ Raise(t, Reason("Failed to download SO file", so_name))
               /\ UNCHANGED workdir
    /\ UNCHANGED <<tasks, next_id, args, index_file, uploads, processed,
                   clock, faults, log, appended, query, response>>

\* lines 519-525: download_file returns and the coroutine is resumed
Downloaded(t) ==
    /\ t \in TaskIds /\ MayRun(t, TRUE) /\ proc[t].pc = "download"
    /\ running' = t
    /\ LET so_name == args[t].so_files[proc[t].pos][1]
           so_url == args[t].so_files[proc[t].pos][2]
           w == work_name(args[t])
       IN IF IsSome(Remote(so_url))
          THEN /\ workdir' = [workdir EXCEPT ![w].downloaded[so_name] = Get(Remote(so_url))]
               /\ Goto(t, "verify")
          ELSE /\ Raise(t, Reason("Failed to download SO file", so_name))
               /\ UNCHANGED workdir
    /\ UNCHANGED <<tasks, next_id, args, index_file, uploads, processed,
                   clock, faults, log, appended, query, response>>

\* lines 527-561: architecture check and the md5 of the slot and of the file
Verify(t) ==
    /\ At(t, "verify")
    /\ LET so_name == args[t].so_files[proc[t].pos][1]
           so_architecture == args[t].so_architecture
           w == work_name(args[t])
           downloaded_so == workdir[w].downloaded[so_name]
           real_so_arch == detect_so_architecture(downloaded_so)
           existing_so == Get(workdir[w].extracted)[Slot(so_architecture, so_name)]
           so_md5_before == IF existing_so # NoFile THEN md5sumSo(existing_so) ELSE "none"
           so_md5_after == md5sumSo(downloaded_so)
       IN /\ IF IsNone(real_so_arch)
             THEN Raise(t, Reason("Failed to detect architecture for SO file", so_name))
             ELSE IF Get(real_so_arch) # so_architecture
             THEN Raise(t, Reason("Architecture mismatch", so_name))
             ELSE proc' = [proc EXCEPT
                     ![t].pc = "loop",
                     ![t].pos = @ + 1,
                     ![t].so_replacement_info =
                         Append(SelectSeq(@, LAMBDA e : e.so_name # so_name),
                                [so_name |-> so_name, md5_before |-> so_md5_before,
                                 md5_after |-> so_md5_after])]
          /\ Logged(t, <<"verify", so_name>>)
    /\ UNCHANGED <<tasks, next_id, args, running, index_file, uploads,
                   processed, workdir, clock, faults, appended,
                   query, response>>

RECURSIVE CopyAll_Every(_, _, _, _)
\* variant of the replacement loop without the test for a blank url
CopyAll_Every(libs, downloaded, so_files, so_architecture) ==
    IF so_files = <<>> THEN libs
    ELSE LET so_name == Head(so_files)[1] IN
         CopyAll_Every([libs EXCEPT ![Slot(so_architecture, so_name)] = downloaded[so_name]],
                       downloaded, Tail(so_files), so_architecture)

RECURSIVE CopyAll(_, _, _, _)
\* the replacement loop of lines 566-575: shutil.copy of every downloaded file
\* with a non-blank url into lib/<so_architecture>/<so_name>
CopyAll(libs, downloaded, so_files, so_architecture) ==
    IF so_files = <<>> THEN libs
    ELSE LET so_name == Head(so_files)[1]
             so_url == Head(so_files)[2]
         IN CopyAll(IF IsBlank(so_url) THEN libs
                    ELSE [libs EXCEPT ![Slot(so_architecture, so_name)] = downloaded[so_name]],
                    downloaded, Tail(so_files), so_architecture)

RECURSIVE ReplaceEvents(_)
ReplaceEvents(so_files) ==
    IF so_files = <<>> THEN <<>>
    ELSE (IF IsBlank(Head(so_files)[2]) THEN <<>> ELSE << <<"replace", Head(so_files)[1]>> >>)
         \o ReplaceEvents(Tail(so_files))

\* json.dumps({k: v[field] ...}) of so_replacement_info
InfoJson(info, field) == [i \in 1..Len(info) |-> <<info[i].so_name, info[i][field]>>]

\* lines 563-586
Replace(t) ==
    /\ At(t, "replace")
    /\ LET w == work_name(args[t])
           info == proc[t].so_replacement_info
       IN /\ workdir' = [workdir EXCEPT ![w].extracted =
                 Some(CopyAll(Get(@), workdir[w].downloaded, args[t].so_files,
                              args[t].so_architecture))]
          /\ tasks' = [tasks EXCEPT
                 ![t].real_so_architecture = Some(args[t].so_architecture),
                 ![t].so_md5_before = Some(InfoJson(info, "md5_before")),
                 ![t].so_md5_after = Some(InfoJson(info, "md5_after"))]
    /\ Goto(t, "build")
    /\ log' = [log EXCEPT ![t] = @ \o ReplaceEvents(args[t].so_files)]
    /\ UNCHANGED <<next_id, args, running, index_file, uploads, processed,
                   clock, faults, appended, query, response>>

\* a build tool or a write of the index file fails now
Fault == faults < MaxFaults /\ faults' = faults + 1
NoFault == faults' = faults

\* lines 589-596: run_apktool_build
Build(t) ==
    /\ At(t, "build")
    /\ LET w == work_name(args[t]) IN
       \/ /\ NoFault
          /\ workdir' = [workdir EXCEPT ![w].unsigned =
                             Some(Apk(TRUE, FALSE, Get(workdir[w].extracted)))]
          /\ Goto(t, "align")
       \/ /\ Fault
          /\ Raise(t, Reason("Failed to rebuild APK", ""))
          /\ UNCHANGED workdir
    /\ Logged(t, <<"build", "">>)
    /\ UNCHANGED <<tasks, next_id, args, running, index_file, uploads,
                   processed, clock, appended, query, response>>

\* lines 598-601: run_zipalign
Align(t) ==
    /\ At(t, "align")
    /\ LET w == work_name(args[t]) IN
       \/ /\ NoFault
          /\ workdir' = [workdir EXCEPT ![w].aligned = workdir[w].unsigned]
          /\ Goto(t, "sign")
       \/ /\ Fault
          /\ Raise(t, Reason("Failed to align APK", ""))
          /\ UNCHANGED workdir
    /\ Logged(t, <<"align", "">>)
    /\ UNCHANGED <<tasks, next_id, args, running, index_file, uploads,
                   processed, clock, appended, query, response>>

\* lines 603-606: run_apksigner
Sign(t) ==
    /\ At(t, "sign")
    /\ LET w == work_name(args[t]) IN
       \/ /\ NoFault
          /\ processed' = processed @@
                 (t :> Apk(TRUE, TRUE, Get(workdir[w].aligned).libs))
          /\ Goto(t, "md5")
       \/ /\ Fault
          /\ Raise(t, Reason("Failed to sign APK", ""))
          /\ UNCHANGED processed
    /\ Logged(t, <<"sign", "">>)
    /\ UNCHANGED <<tasks, next_id, args, running, index_file, uploads,
                   workdir, clock, appended, query, response>>

\* lines 608-619: remove the intermediate files, md5 of the signed package
FinalMd5(t) ==
    /\ At(t, "md5")
    /\ LET w == work_name(args[t]) IN
       workdir' = [workdir EXCEPT ![w].unsigned = None, ![w].aligned = None]
    /\ tasks' = [tasks EXCEPT ![t].file_md5_after = Some(md5sum(processed[t]))]
    /\ Goto(t, "load_index")
    /\ UNCHANGED <<next_id, args, running, index_file, uploads, processed,
                   clock, faults, log, appended, query, response>>

\* line 623
LoadIndex(t) ==
    /\ At(t, "load_index")
    /\ IF LoadRaises(index_file)
       THEN Raise(t, Reason("JSONDecodeError", ""))
       ELSE proc' = [proc EXCEPT ![t].pc = "add_task",
                                 ![t].index = Some(load_index(index_file))]
    /\ Logged(t, <<"load_index", "">>)
    /\ UNCHANGED <<tasks, next_id, args, running, index_file, uploads, processed,
                   workdir, clock, faults, appended, query, response>>

\* lines 624-633
AddTask(t) ==
    /\ At(t, "add_task")
    /\ LET file_md5_after == Get(tasks[t].file_md5_after)
           task_entry == [task_id |-> t, pkg_name |-> args[t].pkg_name,
                          so_architecture |-> args[t].so_architecture,
                          signed_apk_path |-> t, file_md5_after |-> file_md5_after,
                          timestamp |-> clock]
       IN proc' = [proc EXCEPT
              ![t].pc = "save_index",
              ![t].task_entry = Some(task_entry),
              ![t].index = Some(add_task_to_index(Get(@), args[t].file_md5, task_entry,
                                                  file_md5_after))]
    /\ Logged(t, <<"add_task", "">>)
    /\ UNCHANGED <<tasks, next_id, args, running, index_file, uploads, processed,
                   workdir, clock, faults, appended, query, response>>

\* line 634: save_index succeeds, fails at open, or fails in json.dump after
\* open(INDEX_FILE, "w") emptied the file
SaveIndex(t) ==
    /\ At(t, "save_index")
    /\ \/ /\ NoFault
          /\ index_file' = save_index(Get(proc[t].index))
          /\ appended' = LET k == args[t].file_md5
                             old == IF k \in DOMAIN appended THEN appended[k] ELSE {}
                         IN [h \in DOMAIN appended \cup {k} |->
                               IF h = k THEN old \cup {Get(proc[t].task_entry)}
                               ELSE appended[h]]
          /\ Goto(t, "complete")
       \/ /\ Fault
          /\ Raise(t, Reason("OSError", ""))
          /\ \/ index_file' = index_file
             \/ index_file' = SaveTruncated
          /\ UNCHANGED appended
    /\ Logged(t, <<"save_index", "">>)
    /\ UNCHANGED <<tasks, next_id, args, running, uploads, processed,
                   workdir, clock, query, response>>

\* variant of Complete that gives up the event loop right after the status
\* assignment (as an await behind line 637 would)
Complete_YieldsAfterStatus(t) ==
    /\ At(t, "complete")
    /\ tasks' = [tasks EXCEPT ![t].status = COMPLETE]
    /\ Return(t)
    /\ running' = 0
    /\ UNCHANGED <<next_id, args, index_file, uploads, processed, workdir, clock, faults,
                   log, appended, query, response>>

\* lines 637-652
Complete(t) ==
    /\ At(t, "complete")
    /\ tasks' = [tasks EXCEPT
          ![t].status = COMPLETE,
          ![t].end_process_timestamp = Some(clock),
          ![t].total_consume_seconds = Some(clock - Get(tasks[t].start_process_timestamp)),
          ![t].signed_apk_download_path =
              Some(IF DOWNLOAD_BASE_PATH # "" THEN DOWNLOAD_BASE_PATH \o ToString(t) \o "_signed.apk"
                   ELSE "/download/" \o ToString(t)),
          ![t].smb_path = IF SMB_BASE_PATH # ""
                          THEN Some(SMB_BASE_PATH \o ToString(t) \o "_signed.apk") ELSE @]
    /\ Return(t)
    /\ running' = 0
    /\ UNCHANGED <<next_id, args, index_file, uploads, processed, workdir, clock, faults,
                   log, appended, query, response>>

\* variant of Except that also withdraws the md5 of the output
Except_ClearsOutput(t) ==
    /\ At(t, "except")
    /\ tasks' = [tasks EXCEPT
          ![t].status = FAILED,
          ![t].reason = proc[t].exc,
          ![t].file_md5_after = None,
          ![t].end_process_timestamp = Some(clock),
          ![t].total_consume_seconds =
              IF IsSome(tasks[t].start_process_timestamp)
              THEN Some(clock - Get(tasks[t].start_process_timestamp)) ELSE @]
    /\ Return(t)
    /\ running' = 0
    /\ UNCHANGED <<next_id, args, index_file, uploads, processed, workdir, clock, faults,
                   log, appended, query, response>>

\* variant of Except that swallows the exception: the coroutine ends and the
\* status stays as it was
Except_Swallows(t) ==
    /\ At(t, "except")
    /\ Return(t)
    /\ running' = 0
    /\ UNCHANGED <<tasks, next_id, args, index_file, uploads, processed, workdir, clock,
                   faults, log, appended, query, response>>

\* variant of Except that stores no reason
Except_NoReason(t) ==
    /\ At(t, "except")
    /\ tasks' = [tasks EXCEPT ![t].status = FAILED,
                              ![t].end_process_timestamp = Some(clock)]
    /\ Return(t)
    /\ running' = 0
    /\ UNCHANGED <<next_id, args, index_file, uploads, processed, workdir, clock, faults,
                   log, appended, query, response>>

\* lines 662-667
Except(t) ==
    /\ At(t, "except")
    /\ tasks' = [tasks EXCEPT
          ![t].status = FAILED,
          ![t].reason = proc[t].exc,
          ![t].end_process_timestamp = Some(clock),
          ![t].total_consume_seconds =
              IF IsSome(tasks[t].start_process_timestamp)
              THEN Some(clock - Get(tasks[t].start_process_timestamp)) ELSE @]
    /\ Return(t)
    /\ running' = 0
    /\ UNCHANGED <<next_id, args, index_file, uploads, processed, workdir, clock, faults,
                   log, appended, query, response>>

\* the fields of TaskInfo declared Optional
OptionalFields ==
    {"file_md5_after", "so_md5_before", "so_md5_after", "real_so_architecture",
     "start_process_timestamp", "end_process_timestamp", "total_consume_seconds",
     "signed_apk_download_path", "smb_path", "reason"}

\* TaskInfo.model_dump(exclude_none=True): the fields that are not None
model_dump(task) ==
    LET present == {f \in DOMAIN task : f \in OptionalFields => IsSome(task[f])} IN
    [f \in present |-> IF f \in OptionalFields THEN Get(task[f]) ELSE task[f]]

\* GET /task_status/{task_id}: None stands for the 404 response
task_status(task_id) ==
    IF task_id \notin DOMAIN tasks THEN None ELSE Some(model_dump(tasks[task_id]))

\* the wall clock advances
Tick ==
    /\ clock < MaxTime
    /\ clock' = clock + 1
    /\ UNCHANGED <<tasks, next_id, args, proc, running, index_file, uploads,
                   processed, workdir, faults, log, appended, query, response>>

Upload == \E r \in UploadRequests : upload_apk(r)
ExistPkg == \E r \in ExistRequests : exist_pkg(r)
Pipeline ==
    \E t \in 1..MaxTasks :
        \/ Begin(t) \/ Decode(t) \/ Validate(t) \/ Loop(t) \/ Downloaded(t)
        \/ Verify(t) \/ Replace(t) \/ Build(t) \/ Align(t) \/ Sign(t) \/ FinalMd5(t)
        \/ LoadIndex(t) \/ AddTask(t) \/ SaveIndex(t) \/ Complete(t) \/ Except(t)

Next == Upload \/ ExistPkg \/ Pipeline \/ Tick

Spec == Init /\ [][Next]_vars

(***************************************************************************)
(* Properties.                                                             *)
(***************************************************************************)
(***************************************************************************)
(* The read endpoints over the index.  The task table lives in memory and  *)
(* the index on disk, so the index a read finds is the work of pipelines   *)
(* of this and of earlier runs of the server: QuerySpec builds it with the *)
(* index update of process_apk_task alone and serves reads in between.     *)
(***************************************************************************)
\* an uploaded package, and an output of the service uploaded again
Sources == {md5sum(Apk1), md5sum(Out1)}

Outputs == {Out1, Out2}

QueryDigests ==
    Sources \cup {md5sum(o) : o \in Outputs}
            \cup {Upper(md5sum(Apk1)), md5sum(ApkBad), "not-an-md5"}

Response(status_code, body) == [status_code |-> status_code, body |-> body]

HTTPException(status_code, detail) == Response(status_code, [detail |-> detail])

\* lines 621-635 of process_apk_task for a task with the given source md5,
\* signed package and architecture; time.time() returns `timestamp`
UpdateIndex(source_md5, signed_apk, so_architecture, timestamp) ==
    /\ running = 0 /\ next_id < MaxRecords /\ ~LoadRaises(index_file)
    /\ LET task_id == next_id + 1
           file_md5_after == md5sum(signed_apk)
           task_entry == [task_id |-> task_id, pkg_name |-> "p",
                          so_architecture |-> so_architecture,
                          signed_apk_path |-> task_id,
                          file_md5_after |-> file_md5_after, timestamp |-> timestamp]
           old == IF source_md5 \in DOMAIN appended THEN appended[source_md5] ELSE {}
       IN /\ index_file' = save_index(add_task_to_index(load_index(index_file), source_md5,
                                                        task_entry, file_md5_after))
          /\ appended' = [h \in DOMAIN appended \cup {source_md5} |->
                            IF h = source_md5 THEN old \cup {task_entry} ELSE appended[h]]
          /\ processed' = processed @@ (task_id :> signed_apk)
          /\ next_id' = task_id
    /\ clock' = timestamp
    /\ query' = None /\ response' = None
    /\ UNCHANGED <<tasks, args, proc, running, uploads, workdir, faults, log>>

\* the body check_md5 returns (message and usage_hint left out)
check_md5_body(index, md5_lower) ==
    LET source_md5 == find_source_md5(index, md5_lower) IN
    IF IsNone(source_md5)
    THEN [exists |-> FALSE, md5 |-> md5_lower, md5_type |-> None, source_md5 |-> None,
          derived_md5s |-> <<>>, count |-> 0, can_reuse |-> FALSE]
    ELSE LET source_entry == index[Get(source_md5)]
             tasks_list == source_entry.tasks
             derived_md5s == source_entry.derived_md5s
         IN [exists |-> TRUE, md5 |-> md5_lower,
             md5_type |-> Some(IF md5_lower = Get(source_md5) THEN "source" ELSE "derived"),
             source_md5 |-> source_md5, derived_md5s |-> derived_md5s,
             derived_count |-> Len(derived_md5s), task_count |-> Len(tasks_list),
             latest_task |-> IF tasks_list # <<>> THEN Some(PyMax(tasks_list)) ELSE None,
             can_reuse |-> TRUE]

\* GET /check_md5/{md5}
check_md5(md5) ==
    /\ running = 0
    /\ query' = Some(<<"check_md5", md5, None>>)
    /\ response' = Some(
          IF ~ValidMd5Format(md5)
          THEN HTTPException(400, "Invalid MD5 format. Must be 32 hexadecimal characters.")
          ELSE IF LoadRaises(index_file) THEN HTTPException(500, "Internal Server Error")
          ELSE Response(200, check_md5_body(load_index(index_file), Lower(md5))))
    /\ UNCHANGED <<tasks, next_id, args, proc, running, index_file, uploads,
                   processed, workdir, clock, faults, log, appended>>

\* variant of download_cached_apk that removes the package it serves from
\* PROCESSED_DIR
download_cached_apk_Moves(file_md5, so_architecture) ==
    /\ running = 0
    /\ query' = Some(<<"download_cached", file_md5, so_architecture>>)
    /\ LET cached_entry == get_latest_cached_task(load_index(index_file), file_md5,
                                                  so_architecture)
       IN IF IsNone(cached_entry)
          THEN /\ response' = Some(HTTPException(404, "Cached APK not found"))
               /\ UNCHANGED processed
          ELSE IF Get(cached_entry).signed_apk_path \notin DOMAIN processed
          THEN /\ response' = Some(HTTPException(404, "Cached APK file not found"))
               /\ UNCHANGED processed
          ELSE /\ response' = Some(Response(200, [file |-> processed[Get(cached_entry).signed_apk_path],
                                                  filename |-> "p_signed.apk"]))
               /\ processed' = [i \in DOMAIN processed \ {Get(cached_entry).signed_apk_path}
                                  |-> processed[i]]
    /\ UNCHANGED <<tasks, next_id, args, proc, running, index_file, uploads,
                   workdir, clock, faults, log, appended>>

\* GET /download_cached/{file_md5}?so_architecture=...
download_cached_apk(file_md5, so_architecture) ==
    /\ running = 0
    /\ query' = Some(<<"download_cached", file_md5, so_architecture>>)
    /\ response' = Some(
          IF LoadRaises(index_file) THEN HTTPException(500, "Internal Server Error")
          ELSE LET cached_entry == get_latest_cached_task(load_index(index_file), file_md5,
                                                          so_architecture)
               IN IF IsNone(cached_entry) THEN HTTPException(404, "Cached APK not found")
                  ELSE IF Get(cached_entry).signed_apk_path \notin DOMAIN processed
                  THEN HTTPException(404, "Cached APK file not found")
                  ELSE Response(200, [file |-> processed[Get(cached_entry).signed_apk_path],
                                      filename |-> Get(cached_entry).pkg_name \o "_signed.apk"]))
    /\ UNCHANGED <<tasks, next_id, args, proc, running, index_file, uploads,
                   processed, workdir, clock, faults, log, appended>>

QueryInit ==
    /\ tasks = << >> /\ next_id = 0 /\ args = << >> /\ proc = << >> /\ running = 0
    /\ index_file = IndexFile(FALSE, TRUE, EmptyIndex)
    /\ uploads = << >> /\ processed = << >> /\ workdir = << >>
    /\ clock = 1 /\ faults = 0 /\ log = << >> /\ appended = << >>
    /\ query = None /\ response = None

Record ==
    \E source_md5 \in Sources, signed_apk \in Outputs, so_architecture \in ARCHS,
       timestamp \in 1..MaxTime :
        UpdateIndex(source_md5, signed_apk, so_architecture, timestamp)

CheckMd5 == \E md5 \in QueryDigests : check_md5(md5)

DownloadCached ==
    \E file_md5 \in QueryDigests, so_architecture \in {None} \cup {Some(a) : a \in ARCHS} :
        download_cached_apk(file_md5, so_architecture)

QueryNext == Record \/ CheckMd5 \/ DownloadCached

QuerySpec == QueryInit /\ [][QueryNext]_vars


(***************************************************************************)
(* A client that submits packages and polls GET /task_status until the     *)
(* task is complete or failed (py_client_demo.wait_for_completion).  The   *)
(* event loop runs every coroutine that is ready, and the collaborators of *)
(* the pipeline return, with success or with failure.                      *)
(***************************************************************************)
\* upload_apk stores the package under the file name the client sends
ClientUploads ==
    { UploadReq(Apk1, M_one, "arm64-v8a", "p"),
      [UploadReq(Apk1, M_one, "arm64-v8a", "p") EXCEPT !.filename = "app.zip"],
      UploadReq(Apk1, M_both, "arm64-v8a", "p"),
      UploadReq(Apk1, M_mis, "arm64-v8a", "q"),
      UploadReq(Apk1, M_blank, "armeabi-v7a", "q"),
      UploadReq(ApkBad, M_one, "arm64-v8a", "p"),
      [UploadReq(Apk1, M_one, "arm64-v8a", "p") EXCEPT !.md5 = Some(Upper(md5sum(Apk1)))],
      [UploadReq(Apk1, M_one, "arm64-v8a", "p") EXCEPT !.md5 = Some(md5sum(Apk2))],
      [UploadReq(Apk1, M_one, "arm64-v8a", "p") EXCEPT !.md5 = Some("not-an-md5")] }

ClientExists ==
    { ExistReq(Upper(md5sum(Apk1)), M_other, "arm64-v8a", "p"),
      ExistReq(md5sum(ApkBad), M_one, "arm64-v8a", "p") }

\* the ids a client asks for: those the service can give out, and one it
\* never gives out
StatusIds == 0..MaxTasks

\* variant of the endpoint that answers for an unknown id with a new
\* pending record (tasks.setdefault)
get_task_status_Creates(task_id) ==
    /\ running = 0
    /\ query' = Some(<<"task_status", task_id, None>>)
    /\ LET blank == TaskInfo(task_id, "", "", "", "arm64-v8a") IN
       /\ tasks' = IF task_id \in DOMAIN tasks THEN tasks ELSE tasks @@ (task_id :> blank)
       /\ response' = Some(Response(200, model_dump(tasks'[task_id])))
    /\ UNCHANGED <<next_id, args, proc, running, index_file, uploads,
                   processed, workdir, clock, faults, log, appended>>

\* GET /task_status/{task_id} as a request of a client
get_task_status(task_id) ==
    /\ running = 0
    /\ query' = Some(<<"task_status", task_id, None>>)
    /\ response' = Some(
          IF IsNone(task_status(task_id)) THEN HTTPException(404, "Task not found")
          ELSE Response(200, Get(task_status(task_id))))
    /\ UNCHANGED <<tasks, next_id, args, proc, running, index_file, uploads,
                   processed, workdir, clock, faults, log, appended>>

ClientUpload == \E r \in ClientUploads : upload_apk(r)

ClientExistPkg == \E r \in ClientExists : exist_pkg(r)

GetTaskStatus == \E task_id \in StatusIds : get_task_status(task_id)

ClientNext == ClientUpload \/ ClientExistPkg \/ Pipeline \/ GetTaskStatus

\* the service of a new installation: no index, no stored package
ClientInit == Init /\ uploads = << >>

ClientSpec ==
    /\ ClientInit
    /\ [][ClientNext]_vars
    /\ WF_vars(Pipeline)
    /\ \A task_id \in StatusIds : WF_vars(get_task_status(task_id))


(***************************************************************************)
(* The index document of an installation that older versions of the       *)
(* service wrote: GET /index shows what load_index makes of it, and the    *)
(* index update of process_apk_task rewrites it in the current shape.      *)
(***************************************************************************)
\* a task entry without the key file_md5_after
WithoutOutput(t) == [f \in DOMAIN t \ {"file_md5_after"} |-> t[f]]

\* what a document can hold under one key: a single task (with an output
\* md5, with an empty one, without one), lists of tasks, the current shape,
\* and a dict load_index does not recognise
DocumentEntries ==
    { PriorEntry(1),
      [PriorEntry(1) EXCEPT !.file_md5_after = ""],
      WithoutOutput(PriorEntry(1)),
      JList(<<>>),
      JList(<<PriorEntry(1)>>),
      JList(<<PriorEntry(1), PriorEntry(2)>>),
      JList(<<PriorEntry(2), PriorEntry(1), PriorEntry(3)>>),
      JList(<<PriorEntry(1), WithoutOutput(PriorEntry(2)), PriorEntry(3)>>),
      PriorIndex(2)[md5sum(Apk1)],
      [note |-> "unknown"] }

Documents ==
    UNION {[keys -> DocumentEntries] : keys \in SUBSET {md5sum(Apk1), md5sum(Apk2)}}

RECURSIVE Total(_, _, _)
\* sum(len(entry.get(field, [])) for entry in index.values())
Total(index, keys, field) ==
    IF keys = {} THEN 0
    ELSE LET k == CHOOSE x \in keys : TRUE IN
         Len(index[k][field]) + Total(index, keys \ {k}, field)

\* GET /index
get_index ==
    /\ running = 0
    /\ query' = Some(<<"index", "", None>>)
    /\ IF LoadRaises(index_file)
       THEN response' = Some(HTTPException(500, "Internal Server Error"))
       ELSE \E index \in LoadResults(index_file) :
               response' = Some(Response(200,
                   [total_source_md5 |-> Cardinality(DOMAIN index),
                    total_derived_md5 |-> Total(index, DOMAIN index, "derived_md5s"),
                    total_tasks |-> Total(index, DOMAIN index, "tasks"),
                    index |-> index]))
    /\ UNCHANGED <<tasks, next_id, args, proc, running, index_file, uploads,
                   processed, workdir, clock, faults, log, appended>>

LoadInit ==
    /\ tasks = << >> /\ next_id = 0 /\ args = << >> /\ proc = << >> /\ running = 0
    /\ \E data \in Documents : index_file = IndexFile(TRUE, TRUE, data)
    /\ uploads = << >> /\ processed = << >> /\ workdir = << >>
    /\ clock = 1 /\ faults = 0 /\ log = << >> /\ appended = << >>
    /\ query = None /\ response = None

\* a task for Apk1 or Apk2 completes its index update
Rewrite ==
    \E source_md5 \in {md5sum(Apk1), md5sum(Apk2)}, signed_apk \in Outputs :
        UpdateIndex(source_md5, signed_apk, "arm64-v8a", MaxTime)

LoadNext == get_index \/ Rewrite

LoadSpec == LoadInit /\ [][LoadNext]_vars


(***************************************************************************)
(* GET /download/{task_id} next to the submissions and the pipeline of a   *)
(* new installation.                                                       *)
(***************************************************************************)
\* variant of the endpoint without the test of the status
download_apk_AnyStatus(task_id) ==
    /\ running = 0
    /\ query' = Some(<<"download", task_id, None>>)
    /\ response' = Some(
          IF task_id \notin DOMAIN tasks THEN HTTPException(404, "Task not found")
          ELSE IF task_id \notin DOMAIN processed
          THEN HTTPException(404, "Processed APK not found")
          ELSE Response(200, [file |-> processed[task_id],
                              filename |-> tasks[task_id].pkg_name \o "_signed.apk"]))
    /\ UNCHANGED <<tasks, next_id, args, proc, running, index_file, uploads,
                   processed, workdir, clock, faults, log, appended>>

\* lines 834-863
download_apk(task_id) ==
    /\ running = 0
    /\ query' = Some(<<"download", task_id, None>>)
    /\ response' = Some(
          IF task_id \notin DOMAIN tasks THEN HTTPException(404, "Task not found")
          ELSE IF tasks[task_id].status # COMPLETE
          THEN HTTPException(400, "Task not complete, current status: "
                                      \o tasks[task_id].status)
          ELSE IF task_id \notin DOMAIN processed
          THEN HTTPException(404, "Processed APK not found")
          ELSE Response(200, [file |-> processed[task_id],
                              filename |-> tasks[task_id].pkg_name \o "_signed.apk"]))
    /\ UNCHANGED <<tasks, next_id, args, proc, running, index_file, uploads,
                   processed, workdir, clock, faults, log, appended>>

DownloadApk == \E task_id \in StatusIds : download_apk(task_id)

DownloadNext == ClientUpload \/ ClientExistPkg \/ Pipeline \/ DownloadApk

DownloadSpec == ClientInit /\ [][DownloadNext]_vars


Readable == ~LoadRaises(index_file)

\* the index as load_index returns it now
Idx == load_index(index_file)

HasEvent(t, stage) == \E i \in 1..Len(log[t]) : log[t][i][1] = stage

EntryIds(idx, k) == {idx[k].tasks[i].task_id : i \in 1..Len(idx[k].tasks)}

IndexedIds(idx) == UNION {EntryIds(idx, k) : k \in DOMAIN idx}

\* C1: right after a task's add_task_to_index and save_index, find_source_md5
\* of the task's output md5 is the task's input md5.
C1_OutputResolvesToInput ==
    \A t \in TaskIds :
        proc[t].pc = "complete" =>
            find_source_md5(Idx, Get(tasks[t].file_md5_after)) = Some(tasks[t].file_md5_before)

\* the failure of a stage of the download-and-verify loop
FetchFailures == {"Failed to download SO file", "Failed to detect architecture for SO file",
                  "Architecture mismatch"}

FailedInFetch(t) ==
    \/ IsSome(proc[t].exc) /\ Get(proc[t].exc).msg \in FetchFailures
    \/ IsSome(tasks[t].reason) /\ Get(tasks[t].reason).msg \in FetchFailures

\* no other task has used the working area of t
AloneInWorkArea(t) ==
    \A u \in TaskIds \ {t} :
        work_name(args[u]) = work_name(args[t]) => proc[u].pc = "queued"

\* C2: a task that fails in the download-and-verify loop has copied no file
\* into the unpacked tree (a tree it does not share still holds what apktool
\* unpacked), never runs the rebuild and ends FAILED; the rebuild starts only
\* on a tree that holds the downloaded file of every non-blank entry.
C2_VerifyBeforeCommit ==
    \A t \in TaskIds :
        LET w == work_name(args[t]) IN
        /\ FailedInFetch(t) =>
              /\ ~HasEvent(t, "replace") /\ ~HasEvent(t, "build")
              /\ tasks[t].status # COMPLETE
              /\ proc[t].pc = "done" => tasks[t].status = FAILED
              /\ AloneInWorkArea(t) =>
                    workdir[w].extracted = Some(uploads[args[t].apk_path].data.libs)
        /\ proc[t].pc = "build" =>
              \A i \in 1..Len(args[t].so_files) :
                  ~IsBlank(args[t].so_files[i][2]) =>
                      /\ <<"replace", args[t].so_files[i][1]>> \in Range(log[t])
                      /\ Get(workdir[w].extracted)[Slot(args[t].so_architecture,
                                                        args[t].so_files[i][1])]
                            = workdir[w].downloaded[args[t].so_files[i][1]]

\* a task whose second file could not be downloaded after its first was
\* downloaded and verified has ended
C2_Witness ==
    \E t \in TaskIds :
        /\ proc[t].pc = "done"
        /\ tasks[t].reason = Some(Reason("Failed to download SO file", "libB.so"))
        /\ <<"verify", "libA.so">> \in Range(log[t])

\* C3: a task is created PENDING and its status only ever moves from PENDING
\* to PROCESSING and from PROCESSING to COMPLETE or FAILED.
C3_StatusTransitions ==
    [][ /\ DOMAIN tasks \subseteq DOMAIN tasks'
        /\ \A t \in DOMAIN tasks' :
              IF t \in DOMAIN tasks
              THEN \/ tasks'[t].status = tasks[t].status
                   \/ <<tasks[t].status, tasks'[t].status>> \in
                         {<<PENDING, PROCESSING>>, <<PROCESSING, COMPLETE>>,
                          <<PROCESSING, FAILED>>}
              ELSE tasks'[t].status = PENDING ]_vars

C3_Witness ==
    \E t, u \in TaskIds : tasks[t].status = COMPLETE /\ tasks[u].status = FAILED

\* md5 is no key of idx and is a derived md5 of two or more of its entries
Collides(idx, md5) ==
    /\ md5 \notin DOMAIN idx
    /\ \E j, k \in DOMAIN idx :
          /\ j # k
          /\ \E i \in 1..Len(idx[j].derived_md5s) : idx[j].derived_md5s[i] = md5
          /\ \E i \in 1..Len(idx[k].derived_md5s) : idx[k].derived_md5s[i] = md5

DerivedOf(idx) == UNION {Range(idx[k].derived_md5s) : k \in DOMAIN idx}

\* C4: for an md5 that is a derived md5 of two or more entries and no key,
\* find_source_md5 and get_latest_cached_task find nothing and exist_pkg
\* creates no task.
C4_CollisionFailsClosed ==
    /\ [](Readable =>
            \A md5 \in DerivedOf(Idx) :
                Collides(Idx, md5) =>
                    /\ find_source_md5(Idx, md5) = None
                    /\ get_latest_cached_task(Idx, md5, None) = None
                    /\ \A a \in ARCHS : get_latest_cached_task(Idx, md5, Some(a)) = None)
    /\ [][\A r \in ExistRequests :
            (Readable /\ Collides(Idx, Lower(r.md5)) /\ exist_pkg(r)) =>
                (tasks' = tasks /\ proc' = proc /\ uploads' = uploads)]_vars

C4_Witness ==
    /\ Readable
    /\ \E md5 \in DerivedOf(Idx) : Collides(Idx, md5) /\ find_source_md5(Idx, md5) = None

\* C5: an entry keeps at most 10 tasks; once more than 10 tasks were saved
\* under a source md5 it keeps exactly 10 of them, and none of those it
\* dropped has a larger timestamp than one it kept.
C5_Retention ==
    Readable =>
        \A k \in DOMAIN Idx :
            LET kept == Range(Idx[k].tasks) IN
            /\ Len(Idx[k].tasks) <= 10
            /\ k \in DOMAIN appended
            /\ kept \subseteq appended[k]
            /\ Cardinality(appended[k]) > 10 => Len(Idx[k].tasks) = 10
            /\ Cardinality(kept) = Len(Idx[k].tasks)
            /\ \A e \in appended[k] \ kept : \A r \in kept : e.timestamp <= r.timestamp

C5_Witness ==
    /\ Readable
    /\ \E k \in DOMAIN Idx :
          /\ Cardinality(appended[k]) > 10
          /\ \E t \in TaskIds : t \in EntryIds(Idx, k)
          /\ \E e \in appended[k] : e \notin Range(Idx[k].tasks)

\* the variant a library file is built for
ActualVariant(so) ==
    CASE so \in {"a0", "a1", "x64", "y64"} -> "arm64-v8a"
      [] so = "z32" -> "armeabi-v7a"
      [] OTHER -> "unknown"

\* the task has run the architecture check on the file it downloaded for
\* so_files[i], and that file is not built for the requested variant
VerifiedWrongVariant(t, i) ==
    LET so_name == args[t].so_files[i][1]
        so_url == args[t].so_files[i][2]
    IN /\ <<"verify", so_name>> \in Range(log[t])
       /\ IsSome(Remote(so_url))
       /\ ActualVariant(Get(Remote(so_url))) # args[t].so_architecture

RaisedOrFailedWith(t, msgs, so_name) ==
    \/ /\ proc[t].pc = "except"
       /\ Get(proc[t].exc).msg \in msgs /\ Get(proc[t].exc).so_name = so_name
    \/ /\ proc[t].pc = "done" /\ tasks[t].status = FAILED
       /\ Get(tasks[t].reason).msg \in msgs /\ Get(tasks[t].reason).so_name = so_name

\* C6: a task that has checked a downloaded file which is not built for the
\* requested variant (or for none that is detected) fails with a reason that
\* names that file, replaces nothing and never writes the index.
C6_VariantMismatch ==
    \A t \in TaskIds : \A i \in 1..Len(args[t].so_files) :
        VerifiedWrongVariant(t, i) =>
            /\ RaisedOrFailedWith(t, {"Architecture mismatch",
                                      "Failed to detect architecture for SO file"},
                                  args[t].so_files[i][1])
            /\ ~HasEvent(t, "replace")
            /\ ~HasEvent(t, "save_index")
            /\ IsNone(tasks[t].so_md5_after)
            /\ Readable => t \notin IndexedIds(Idx)
            /\ \A k \in DOMAIN appended : \A e \in appended[k] : e.task_id # t

C6_Witness ==
    \E t, u \in TaskIds :
        /\ proc[t].pc = "done" /\ proc[u].pc = "done"
        /\ tasks[t].reason = Some(Reason("Architecture mismatch", "libB.so"))
        /\ tasks[u].reason = Some(Reason("Failed to detect architecture for SO file", "libB.so"))

IndexFailures == {"JSONDecodeError", "OSError"}

\* C7: in the step that makes a task COMPLETE the index file holds a task
\* entry with the task's id, and a task whose load_index or save_index raised
\* never is COMPLETE and ends FAILED.
C7_CompleteOnlyAfterPersisted ==
    /\ [][\A t \in DOMAIN tasks :
            (tasks[t].status # COMPLETE /\ tasks'[t].status = COMPLETE) =>
                (Readable /\ t \in IndexedIds(Idx))]_vars
    /\ [](\A t \in TaskIds :
            (\/ IsSome(proc[t].exc) /\ Get(proc[t].exc).msg \in IndexFailures
             \/ IsSome(tasks[t].reason) /\ Get(tasks[t].reason).msg \in IndexFailures) =>
                /\ tasks[t].status # COMPLETE
                /\ proc[t].pc = "done" => tasks[t].status = FAILED)

\* C8: no task entry of the index belongs to a FAILED task, and the only step
\* of a pipeline that changes the index file is a save after which the task
\* completes.
C8_FailedNeverWritesIndex ==
    /\ [](\A t \in TaskIds :
            tasks[t].status = FAILED =>
                /\ Readable => t \notin IndexedIds(Idx)
                /\ \A k \in DOMAIN appended : \A e \in appended[k] : e.task_id # t)
    /\ [][\A t \in DOMAIN tasks :
            (running = t /\ index_file' # index_file) => proc'[t].pc = "complete"]_vars

\* C9: two COMPLETE tasks for one source md5 under which at most 10 tasks were
\* saved both have their task entry in the entry of that md5, and both output
\* md5s are among its derived md5s.
C9_NoLostUpdate ==
    Readable =>
        \A t, u \in TaskIds :
            LET k == tasks[t].file_md5_before IN
            (/\ t # u
             /\ tasks[t].status = COMPLETE /\ tasks[u].status = COMPLETE
             /\ tasks[u].file_md5_before = k
             /\ k \in DOMAIN appended /\ Cardinality(appended[k]) <= 10) =>
                /\ k \in DOMAIN Idx
                /\ {t, u} \subseteq EntryIds(Idx, k)
                /\ {Get(tasks[t].file_md5_after), Get(tasks[u].file_md5_after)}
                      \subseteq Range(Idx[k].derived_md5s)

\* two tasks for one source md5 that ran at the same time are COMPLETE with
\* different outputs
C9_Witness ==
    /\ Readable
    /\ \E t, u \in TaskIds :
          /\ t # u
          /\ tasks[t].status = COMPLETE /\ tasks[u].status = COMPLETE
          /\ tasks[t].file_md5_before = tasks[u].file_md5_before
          /\ tasks[t].file_md5_after # tasks[u].file_md5_after
          /\ <<"begin", "concurrent">> \in Range(log[u])
          /\ {t, u} \subseteq EntryIds(Idx, tasks[t].file_md5_before)

\* C10: two tasks that are PROCESSING never use the same working area.
C10_WorkAreaExclusive ==
    \A t, u \in TaskIds :
        (/\ t # u
         /\ tasks[t].status = PROCESSING /\ tasks[u].status = PROCESSING
         /\ HasEvent(t, "decode") /\ HasEvent(u, "decode")) =>
            work_name(args[t]) # work_name(args[u])

\* the service started with an empty index and has created exactly two
\* tasks: the first by an upload, the second by exist_pkg with the md5 of
\* the uploaded package and another so_files map; both are COMPLETE
TwoTaskScenario ==
    /\ DOMAIN uploads = {1, 2} /\ DOMAIN tasks = {1, 2}
    /\ tasks[1].filename = "app.apk"
    /\ tasks[2].filename = FileName(uploads[1])
    /\ tasks[2].file_md5_before = tasks[1].file_md5_before
    /\ args[2].so_files # args[1].so_files
    /\ tasks[1].status = COMPLETE /\ tasks[2].status = COMPLETE

\* C11: from an empty index, a COMPLETE task for an uploaded package A1 with
\* output A2 followed by a COMPLETE exist_pkg task for A1 with another map
\* and output A3 leaves one entry, keyed A1, with derived md5s {A2, A3} and
\* two tasks, and find_source_md5 of A2 and of A3 is A1.
C11_EndToEnd ==
    TwoTaskScenario =>
        LET A1 == tasks[1].file_md5_before
            A2 == Get(tasks[1].file_md5_after)
            A3 == Get(tasks[2].file_md5_after)
        IN /\ Readable
           /\ DOMAIN Idx = {A1}
           /\ Range(Idx[A1].derived_md5s) = {A2, A3}
           /\ Len(Idx[A1].derived_md5s) = Cardinality({A2, A3})
           /\ Len(Idx[A1].tasks) = 2
           /\ EntryIds(Idx, A1) = {1, 2}
           /\ find_source_md5(Idx, A2) = Some(A1)
           /\ find_source_md5(Idx, A3) = Some(A1)

C11_Witness ==
    /\ TwoTaskScenario
    /\ tasks[1].file_md5_after # tasks[2].file_md5_after
    /\ find_source_md5(Idx, Get(tasks[2].file_md5_after)) = Some(md5sum(Apk1))

\* every url of the so_files of task t is blank
AllBlank(t) == args[t].so_files # <<>> /\ valid_so_files(args[t].so_files) = <<>>

NoValidSoFiles == "No valid SO files to process. All URLs are empty."

\* C12: a task whose so_files hold blank urls only runs no stage of the
\* pipeline, the decode included, has no working area made for it and ends
\* FAILED with the reason that no valid SO file was given.
C12_BlankMapBeforeDecode ==
    \A t \in TaskIds :
        AllBlank(t) =>
            /\ ~HasEvent(t, "decode")
            /\ AloneInWorkArea(t) => work_name(args[t]) \notin DOMAIN workdir
            /\ tasks[t].status # COMPLETE
            /\ proc[t].pc = "done" =>
                  /\ tasks[t].status = FAILED
                  /\ Get(tasks[t].reason).msg = NoValidSoFiles

\* C13: no task is created for a request whose so_files hold no non-blank
\* url.
C13_BlankMapCreatesNoTask ==
    \A t \in TaskIds : valid_so_files(args[t].so_files) # <<>>

\* C14: no key of the index is a derived md5 of another entry.
C14_KeyNeverDerivedElsewhere ==
    Readable =>
        \A j, k \in DOMAIN Idx : j # k => j \notin Range(Idx[k].derived_md5s)

\* C15: whenever the event loop is free to serve a request, a task that has
\* a file_md5_after is COMPLETE.
C15_OutputHashOnlyWhenComplete ==
    running = 0 =>
        \A t \in TaskIds : IsSome(tasks[t].file_md5_after) => tasks[t].status = COMPLETE

Terminal == {COMPLETE, FAILED}

\* C16: once task_status has answered COMPLETE or FAILED for a task it
\* answers that status ever after, and for FAILED the same reason; its answer
\* holds a reason exactly when the status is FAILED.
C16_TerminalStatusStable ==
    /\ [](\A t \in TaskIds :
            LET r == Get(task_status(t)) IN
            ("reason" \in DOMAIN r) <=> (r.status = FAILED))
    /\ [][\A t \in DOMAIN tasks :
            LET r == Get(task_status(t)) IN
            r.status \in Terminal =>
                /\ IsSome(task_status(t)')
                /\ Get(task_status(t)').status = r.status
                /\ r.status = FAILED => Get(task_status(t)').reason = r.reason]_vars

\* a task is FAILED with a reason while a task created after it has COMPLETE
C16_Witness ==
    \E t, u \in TaskIds :
        /\ t < u
        /\ Get(task_status(t)).status = FAILED
        /\ "reason" \in DOMAIN Get(task_status(t))
        /\ Get(task_status(u)).status = COMPLETE
        /\ "reason" \notin DOMAIN Get(task_status(u))

\* C17: whenever the event loop is free to serve task_status, an answer with
\* status COMPLETE holds file_md5_after, end_process_timestamp,
\* total_consume_seconds and signed_apk_download_path, and an answer with
\* status FAILED holds reason and end_process_timestamp.
C17_ConsistentSnapshot ==
    running = 0 =>
        \A t \in TaskIds :
            LET r == Get(task_status(t)) IN
            /\ r.status = COMPLETE =>
                  {"file_md5_after", "end_process_timestamp", "total_consume_seconds",
                   "signed_apk_download_path"} \subseteq DOMAIN r
            /\ r.status = FAILED =>
                  {"reason", "end_process_timestamp"} \subseteq DOMAIN r

\* task_status can be served while one task is COMPLETE and the pipeline of
\* another awaits a download
C17_Witness ==
    /\ running = 0
    /\ \E t, u \in TaskIds :
          /\ Get(task_status(t)).status = COMPLETE
          /\ "smb_path" \in DOMAIN Get(task_status(t))
          /\ Get(task_status(u)).status = PROCESSING
          /\ proc[u].pc = "download"

\* C18: a check_md5 or download_cached request changes neither the index
\* file nor the task table, and the same request served again with no index
\* update in between gets the same response.
C18_ReadsIdempotent ==
    [][(CheckMd5 \/ DownloadCached) =>
          /\ index_file' = index_file
          /\ tasks' = tasks
          /\ query' = query => response' = response]_vars

\* a cached package has been served for a derived md5
C18_Witness ==
    /\ query = Some(<<"download_cached", md5sum(Out2), Some("arm64-v8a")>>)
    /\ Get(response).status_code = 200
    /\ Cardinality(DOMAIN Idx) = 1

\* the positions of the tasks of `ts` a request for `variant` may be given
Matching(ts, variant) ==
    {i \in 1..Len(ts) : IsSome(variant) => ts[i].so_architecture = Get(variant)}

\* the last position of `among` that holds the largest timestamp
LastNewest(ts, among) ==
    CHOOSE i \in among :
        \A j \in among : \/ ts[j].timestamp < ts[i].timestamp
                         \/ ts[j].timestamp = ts[i].timestamp /\ j <= i

\* C19: get_latest_cached_task returns nothing when the md5 has no source or
\* no task of the entry matches the architecture, and else the matching task
\* with the largest timestamp, the last of them in the list on a tie.
C19_LatestBreaksTiesByLast ==
    Readable =>
        \A h \in QueryDigests : \A variant \in {None} \cup {Some(a) : a \in ARCHS} :
            LET source_md5 == find_source_md5(Idx, h)
                latest == get_latest_cached_task(Idx, h, variant)
            IN IF IsNone(source_md5) THEN latest = None
               ELSE LET ts == Idx[Get(source_md5)].tasks IN
                    IF Matching(ts, variant) = {} THEN latest = None
                    ELSE latest = Some(ts[LastNewest(ts, Matching(ts, variant))])

\* the keys of idx whose derived md5s hold md5
Holders(idx, md5) == {k \in DOMAIN idx : md5 \in Range(idx[k].derived_md5s)}

\* C20: find_source_md5 of a key is that key, whatever the derived md5s;
\* of another md5 it is the only key whose derived md5s hold it, and nothing
\* when no derived md5s hold it; what it returns is a key.
C20_ResolveKeyFirst ==
    Readable =>
        \A h \in QueryDigests :
            LET md5 == Lower(h)
                found == find_source_md5(Idx, h)
            IN /\ md5 \in DOMAIN Idx => found = Some(md5)
               /\ (md5 \notin DOMAIN Idx /\ Cardinality(Holders(Idx, md5)) = 1) =>
                     IsSome(found) /\ Holders(Idx, md5) = {Get(found)}
               /\ (md5 \notin DOMAIN Idx /\ Holders(Idx, md5) = {}) => found = None
               /\ IsSome(found) => Get(found) \in DOMAIN Idx

\* a key that is a derived md5 of another entry, and an md5 only one entry
\* holds as derived
C20_Witness ==
    /\ Readable
    /\ {md5sum(Apk1), md5sum(Out1)} \subseteq DOMAIN Idx
    /\ md5sum(Out1) \in Range(Idx[md5sum(Apk1)].derived_md5s)
    /\ find_source_md5(Idx, md5sum(Out1)) = Some(md5sum(Out1))
    /\ Holders(Idx, md5sum(Out2)) = {md5sum(Out1)}
    /\ find_source_md5(Idx, md5sum(Out2)) = Some(md5sum(Out1))

SupportedArchitectures == {"arm64-v8a", "armeabi-v7a"}

\* C21: upload_apk and exist_pkg create no task and store no file for a
\* request whose so_architecture is not arm64-v8a or armeabi-v7a, and every
\* task of the table has one of the two.
C21_UnsupportedArchitectureRejected ==
    /\ [](\A t \in TaskIds :
            /\ tasks[t].so_architecture \in SupportedArchitectures
            /\ args[t].so_architecture \in SupportedArchitectures)
    /\ [][/\ \A r \in UploadRequests :
               (r.so_architecture \notin SupportedArchitectures /\ upload_apk(r)) =>
                   (tasks' = tasks /\ proc' = proc /\ uploads' = uploads)
          /\ \A r \in ExistRequests :
               (r.so_architecture \notin SupportedArchitectures /\ exist_pkg(r)) =>
                   (tasks' = tasks /\ proc' = proc /\ uploads' = uploads)]_vars

\* the service can take another task, and an exist_pkg request for x86
\* names an md5 that has a source in the index and a stored upload
C21_Witness ==
    /\ running = 0 /\ next_id < MaxTasks /\ TaskIds # {} /\ Readable
    /\ \E r \in ExistRequests :
          /\ r.so_architecture = "x86"
          /\ IsSome(find_source_md5(Idx, r.md5))
          /\ MatchingUploads(Get(find_source_md5(Idx, r.md5))) # {}
    /\ \E r \in UploadRequests : r.so_architecture = "x86" /\ r.so_files # <<>>

\* the value a field of a task has in the JSON of the task
Dumped(task, f) == IF f \in OptionalFields THEN Get(task[f]) ELSE task[f]

\* C22: GET /task_status answers 404 exactly for an id for which no task was
\* created, answers with the fields of the task that are set otherwise, and
\* leaves the task table and the pipelines as they are.
C22_StatusReadOnly ==
    [][\A task_id \in StatusIds :
          get_task_status(task_id) =>
              /\ tasks' = tasks /\ args' = args /\ proc' = proc /\ next_id' = next_id
              /\ (Get(response').status_code = 404) <=> (task_id \notin DOMAIN log)
              /\ task_id \in DOMAIN log =>
                    LET body == Get(response').body
                        task == tasks[task_id]
                    IN /\ Get(response').status_code = 200
                       /\ body.task_id = task_id
                       /\ \A f \in DOMAIN task :
                             IF f \in OptionalFields /\ IsNone(task[f])
                             THEN f \notin DOMAIN body
                             ELSE f \in DOMAIN body /\ body[f] = Dumped(task, f)]_vars

\* the status of a task was read while its pipeline waits for a download,
\* and the id 0 was never given out
C22_Witness ==
    \E t \in TaskIds :
        /\ query = Some(<<"task_status", t, None>>)
        /\ Get(response).status_code = 200
        /\ Get(response).body.status = PROCESSING
        /\ "reason" \notin DOMAIN Get(response).body
        /\ proc[t].pc = "download"
        /\ IsNone(task_status(0))

\* C24: when check_md5 answers can_reuse for an md5, exist_pkg with that md5,
\* a supported so_architecture and a non-empty so_files map creates a
\* pending task whose file_md5_before is the source the md5 resolves to.
C24_ReuseByHash ==
    \A r \in ClientExists :
        (/\ running = 0 /\ next_id < MaxTasks /\ Readable
         /\ r.so_architecture \in SupportedArchitectures /\ r.so_files # <<>>
         /\ ValidMd5Format(r.md5)
         /\ check_md5_body(Idx, Lower(r.md5)).can_reuse) =>
            ENABLED (/\ exist_pkg(r)
                     /\ next_id' = next_id + 1
                     /\ tasks'[next_id'].status = PENDING
                     /\ tasks'[next_id'].file_md5_before =
                            Get(find_source_md5(Idx, Lower(r.md5))))

\* the answer of GET /task_status that ends wait_for_completion for task t
Finished(t) ==
    /\ query = Some(<<"task_status", t, None>>)
    /\ IsSome(response) /\ Get(response).status_code = 200
    /\ Get(response).body.status \in {COMPLETE, FAILED}

\* C25: with the event loop running every ready coroutine and every
\* collaborator returning, each task that upload_apk or exist_pkg created
\* becomes complete or failed, and the client that polls its status gets
\* that answer.
C25_EveryTaskTerminates ==
    \A t \in 1..MaxTasks :
        /\ (t \in TaskIds) ~> (t \in TaskIds /\ tasks[t].status \in {COMPLETE, FAILED})
        /\ (t \in TaskIds) ~> Finished(t)

\* a task is complete after an earlier one failed, and its client has read
\* the final status
C25_Witness ==
    \E t \in TaskIds :
        /\ Finished(t)
        /\ tasks[t].status = COMPLETE
        /\ \E u \in TaskIds : u < t /\ tasks[u].status = FAILED

\* C23: every answer of check_md5 for a well-formed md5 has a field count,
\* the number of tasks of the source the md5 resolves to and 0 when it
\* resolves to none.
C23_CountInEveryAnswer ==
    (/\ IsSome(query) /\ Get(query)[1] = "check_md5"
     /\ Get(response).status_code = 200 /\ Readable) =>
        LET body == Get(response).body
            source_md5 == find_source_md5(Idx, body.md5)
        IN /\ "count" \in DOMAIN body
           /\ body.count = IF IsNone(source_md5) THEN 0
                           ELSE Len(Idx[Get(source_md5)].tasks)

\* the place of a logged step in the order of the stages of process_apk_task
StageRank(event) ==
    CASE event[1] = "begin" -> 0
      [] event[1] = "decode" -> 1
      [] event[1] = "validate" -> 2
      [] event[1] \in {"skip", "download", "verify"} -> 3
      [] event[1] = "replace" -> 4
      [] event[1] = "build" -> 5
      [] event[1] = "align" -> 6
      [] event[1] = "sign" -> 7
      [] event[1] \in {"load_index", "add_task", "save_index"} -> 8

\* the stages that are one step
SingleStages == {"begin", "decode", "validate", "build", "align", "sign",
                 "load_index", "add_task", "save_index"}

\* the step that raises the exception with this message
RaisedBy(msg) ==
    CASE msg = "Failed to decode APK" -> "decode"
      [] msg = "No valid SO files to process. All URLs are empty." -> "validate"
      [] msg = "Failed to download SO file" -> "download"
      [] msg \in {"Failed to detect architecture for SO file", "Architecture mismatch"} -> "verify"
      [] msg = "Failed to rebuild APK" -> "build"
      [] msg = "Failed to align APK" -> "align"
      [] msg = "Failed to sign APK" -> "sign"
      [] msg = "JSONDecodeError" -> "load_index"
      [] msg = "OSError" -> "save_index"

InStageOrder(l) ==
    /\ \A i, j \in 1..Len(l) :
          i < j => /\ StageRank(l[i]) <= StageRank(l[j])
                   /\ l[i][1] \in SingleStages => l[i] # l[j]
    \* every earlier stage has run
    /\ \A i \in 1..Len(l) : \A r \in 0..(StageRank(l[i]) - 1) :
          \E j \in 1..(i - 1) : StageRank(l[j]) = r
    \* the components are fetched and verified one after the other
    /\ \A i \in 1..Len(l) :
          l[i][1] = "verify" => (i > 1 /\ l[i - 1] = <<"download", l[i][2]>>)

\* the last logged step of a failed pipeline is the one that raised `cause`
FailedIn(l, cause) ==
    /\ l # <<>>
    /\ l[Len(l)][1] = RaisedBy(cause.msg)
    /\ RaisedBy(cause.msg) \in {"download", "verify"} => l[Len(l)][2] = cause.so_name

\* C26: the steps of one task run in the order decode, validation of the
\* map, download and check of each file, replacement, build, align, sign,
\* index update, each after all earlier ones; once a step has raised, the
\* task takes no further step and its reason is that step's exception.
C26_StagesInOrder ==
    /\ [](\A t \in TaskIds :
            /\ InStageOrder(log[t])
            /\ proc[t].pc = "except" => FailedIn(log[t], Get(proc[t].exc))
            /\ tasks[t].status = FAILED =>
                  /\ IsSome(tasks[t].reason)
                  /\ FailedIn(log[t], Get(tasks[t].reason)))
    /\ [][\A t \in TaskIds :
            (proc[t].pc \in {"except", "done"}) =>
                /\ log'[t] = log[t]
                /\ proc[t].pc = "except" =>
                      (tasks'[t] # tasks[t] => tasks'[t].reason = proc[t].exc)]_vars

\* a task failed in zipalign after decode, validation, download, check,
\* replacement and build, and never ran apksigner
C26_Witness ==
    \E t \in TaskIds :
        /\ tasks[t].status = FAILED
        /\ Get(tasks[t].reason).msg = "Failed to align APK"
        /\ \A s \in {"decode", "validate", "download", "verify", "replace", "build", "align"} :
              HasEvent(t, s)
        /\ ~HasEvent(t, "sign") /\ ~HasEvent(t, "load_index")

\* the derived_md5s of every source of an index are the file_md5_after of
\* its tasks, each once
DerivedMatchesTasks(idx) ==
    \A k \in DOMAIN idx :
        LET d == idx[k].derived_md5s IN
        /\ Range(d) = {idx[k].tasks[i].file_md5_after : i \in 1..Len(idx[k].tasks)}
        /\ \A i, j \in 1..Len(d) : d[i] = d[j] => i = j

\* C27: in the index file and in the index a pipeline is about to save, the
\* derived_md5s of every source are exactly the file_md5_after of the tasks
\* the source holds, with and without pruning.
C27_DerivedMatchesHistory ==
    /\ Readable => DerivedMatchesTasks(Idx)
    /\ \A t \in TaskIds : proc[t].pc = "save_index" => DerivedMatchesTasks(Get(proc[t].index))

\* the index holds 10 tasks of a source after a pruning that dropped the
\* only task with some output, and that output is no longer listed
C27_Witness ==
    /\ Readable
    /\ \E k \in DOMAIN Idx :
          /\ Len(Idx[k].tasks) = RetentionLimit
          /\ k \in DOMAIN appended
          /\ \E e \in appended[k] : e.file_md5_after \notin Range(Idx[k].derived_md5s)

\* the number of times process_apk_task of a task has set PROCESSING
Begun(t) == Cardinality({i \in 1..Len(log[t]) : log[t][i][1] = "begin"})

\* C28: a task becomes PROCESSING once, in the step that sets
\* start_process_timestamp, so the start time is set exactly when the status
\* is not PENDING; end_process_timestamp and total_consume_seconds are set
\* exactly when the status is COMPLETE or FAILED, and the total is the end
\* time minus the start time.
C28_Timestamps ==
    /\ [](\A t \in TaskIds :
            LET task == tasks[t] IN
            /\ IsSome(task.start_process_timestamp) <=> task.status # PENDING
            /\ IsSome(task.end_process_timestamp) <=> task.status \in Terminal
            /\ IsSome(task.total_consume_seconds) <=> task.status \in Terminal
            /\ task.status \in Terminal =>
                  Get(task.total_consume_seconds) =
                      Get(task.end_process_timestamp) - Get(task.start_process_timestamp)
            /\ Begun(t) = IF task.status = PENDING THEN 0 ELSE 1)
    /\ [][\A t \in TaskIds :
            /\ (tasks'[t].status = PROCESSING /\ tasks[t].status # PROCESSING) =>
                  /\ tasks[t].status = PENDING
                  /\ tasks'[t].start_process_timestamp = Some(clock)
            /\ tasks[t].status # PENDING =>
                  tasks'[t].start_process_timestamp = tasks[t].start_process_timestamp]_vars

\* a task that started at time 1 is complete at time 2 with a total of 1,
\* next to a failed task
C28_Witness ==
    \E t, u \in TaskIds :
        /\ tasks[t].status = COMPLETE
        /\ tasks[t].start_process_timestamp = Some(1)
        /\ tasks[t].end_process_timestamp = Some(2)
        /\ tasks[t].total_consume_seconds = Some(1)
        /\ tasks[u].status = FAILED /\ IsSome(tasks[u].total_consume_seconds)

\* the status changes process_apk_task makes
Advances == {<<PENDING, PROCESSING>>, <<PROCESSING, COMPLETE>>, <<PROCESSING, FAILED>>}

\* C29: no step removes a task, changes task_id, filename, pkg_name,
\* so_architecture or file_md5_before, or changes an optional field that is
\* set; the status only moves from PENDING to PROCESSING and from PROCESSING
\* to COMPLETE or FAILED.
C29_FieldsMonotonic ==
    [][\A t \in TaskIds :
          /\ t \in DOMAIN tasks'
          /\ DOMAIN tasks'[t] = DOMAIN tasks[t]
          /\ \A f \in DOMAIN tasks[t] :
                IF f = "status"
                THEN tasks'[t][f] = tasks[t][f] \/ <<tasks[t][f], tasks'[t][f]>> \in Advances
                ELSE IF f \in OptionalFields
                THEN IsSome(tasks[t][f]) => tasks'[t][f] = tasks[t][f]
                ELSE tasks'[t][f] = tasks[t][f]]_vars

\* a task failed after its replacement data and the md5 of its output were
\* stored, and still has them
C29_Witness ==
    \E t \in TaskIds :
        /\ tasks[t].status = FAILED
        /\ IsSome(tasks[t].file_md5_after)
        /\ IsSome(tasks[t].so_md5_after)
        /\ IsSome(tasks[t].real_so_architecture)
        /\ IsSome(tasks[t].reason)

\* C30: when a task whose package has an md5 that is listed as derived md5
\* of a source R (and is no source itself) saves the index, its entry is
\* added to the tasks of R, its output md5 to the derived_md5s of R, and no
\* record keyed by the md5 of the package appears.
C30_DerivedInputJoinsRecord ==
    [][\A t \in TaskIds :
          LET h == md5sum(uploads[args[t].apk_path].data) IN
          (/\ proc[t].pc = "save_index" /\ proc'[t].pc = "complete"
           /\ Readable
           /\ h \notin DOMAIN Idx
           /\ \E R \in DOMAIN Idx : h \in Range(Idx[R].derived_md5s)) =>
              LET idx == load_index(index_file') IN
              /\ h \notin DOMAIN idx
              /\ \E R \in DOMAIN Idx :
                    /\ h \in Range(Idx[R].derived_md5s)
                    /\ t \in EntryIds(idx, R)
                    /\ Get(tasks[t].file_md5_after) \in Range(idx[R].derived_md5s)]_vars

\* C31: a source the index file holds is in the index file after every
\* later step, under the same key and with source_md5 equal to the key.
C31_RecordsKept ==
    [][\A h \in (IF Readable THEN DOMAIN Idx ELSE {}) :
          /\ ~LoadRaises(index_file')
          /\ h \in DOMAIN load_index(index_file')
          /\ load_index(index_file')[h].source_md5 = h]_vars

\* what so_md5_before holds for a slot with this content
DigestOrNone(so) == IF so = NoFile THEN "none" ELSE md5sumSo(so)

\* C32: so_md5_before and so_md5_after are unset until the replacement loop
\* of the task has run; from then on each has one item per so file with a
\* non-blank url, and the item of so_md5_before is the md5 of the file that
\* was in lib/<so_architecture>/<so_name> when the replacement loop started,
\* "none" exactly when there was no file.
C32_DigestsBefore ==
    /\ [](\A t \in TaskIds :
            LET valid == valid_so_files(args[t].so_files) IN
            /\ IsSome(tasks[t].so_md5_before) <=> HasEvent(t, "replace")
            /\ IsSome(tasks[t].so_md5_after) <=> HasEvent(t, "replace")
            /\ IsSome(tasks[t].so_md5_before) =>
                  \A f \in {"so_md5_before", "so_md5_after"} :
                      /\ Len(Get(tasks[t][f])) = Len(valid)
                      /\ \A i \in 1..Len(valid) : Get(tasks[t][f])[i][1] = valid[i][1])
    /\ [][\A t \in TaskIds :
            (IsNone(tasks[t].so_md5_before) /\ IsSome(tasks'[t].so_md5_before)) =>
                LET before == Get(tasks'[t].so_md5_before)
                    tree == Get(workdir[work_name(args[t])].extracted)
                IN \A i \in 1..Len(before) :
                      before[i][2] =
                          DigestOrNone(tree[Slot(args[t].so_architecture, before[i][1])])]_vars

\* the so files of a task whose url is blank
BlankNames(t) ==
    {args[t].so_files[i][1] : i \in {j \in 1..Len(args[t].so_files) :
                                        IsBlank(args[t].so_files[j][2])}}

\* C33: a so file with a blank url is never downloaded, checked or copied,
\* has no item in the replacement data, and the replacement loop leaves the
\* file of its slot as it is; a task with such an entry next to a non-blank
\* one can complete.
C33_BlankEntriesDropped ==
    /\ [](\A t \in TaskIds : \A n \in BlankNames(t) :
            /\ \A s \in {"download", "verify", "replace"} :
                  \A i \in 1..Len(log[t]) : log[t][i] # <<s, n>>
            /\ \A i \in 1..Len(proc[t].so_replacement_info) :
                  proc[t].so_replacement_info[i].so_name # n
            /\ IsSome(tasks[t].so_md5_after) =>
                  \A i \in 1..Len(Get(tasks[t].so_md5_after)) :
                      Get(tasks[t].so_md5_after)[i][1] # n)
    /\ [][\A t \in TaskIds :
            (proc[t].pc = "replace" /\ proc'[t].pc = "build") =>
                LET w == work_name(args[t]) IN
                \A n \in BlankNames(t) :
                    Get(workdir'[w].extracted)[Slot(args[t].so_architecture, n)] =
                        Get(workdir[w].extracted)[Slot(args[t].so_architecture, n)]]_vars

\* a task with a blank url for libA.so and a url for libB.so is complete;
\* its output has the original libA.so and the downloaded libB.so
C33_Witness ==
    \E t \in TaskIds :
        /\ tasks[t].status = COMPLETE
        /\ BlankNames(t) = {"libA.so"}
        /\ HasEvent(t, "skip")
        /\ processed[t].libs[Slot("arm64-v8a", "libA.so")] = "a0"
        /\ processed[t].libs[Slot("arm64-v8a", "libB.so")] = "x64"

\* the index GET /index has just returned
Loaded == Get(response).body.index

\* C34: load_index turns a single task stored under a key k into the entry
\* with source_md5 k, that task as the only task and its output md5 (if it
\* has one) as the only derived md5; a list under k into the entry with
\* source_md5 k, the list as tasks and the distinct output md5s of the list
\* as derived md5s; it returns an entry of the current shape as it is, so
\* the index an index update has saved is the index load_index returns.
C34_LegacyShapesFolded ==
    /\ []((/\ IsSome(query) /\ Get(query)[1] = "index"
           /\ Get(response).status_code = 200) =>
            \A k \in DOMAIN index_file.data :
                LET e == index_file.data[k] IN
                IF {"source_md5", "derived_md5s"} \subseteq DOMAIN e
                THEN k \in DOMAIN Loaded /\ Loaded[k] = e
                ELSE IF "task_id" \in DOMAIN e
                THEN /\ k \in DOMAIN Loaded
                     /\ Loaded[k] = [source_md5 |-> k,
                                     derived_md5s |-> IF HasOutput(e)
                                                      THEN <<e.file_md5_after>> ELSE <<>>,
                                     tasks |-> <<e>>]
                ELSE IF "json_list" \in DOMAIN e
                THEN /\ k \in DOMAIN Loaded
                     /\ Loaded[k].source_md5 = k
                     /\ Loaded[k].tasks = e.json_list
                     /\ LET d == Loaded[k].derived_md5s IN
                        /\ Range(d) = {e.json_list[i].file_md5_after :
                                          i \in {j \in 1..Len(e.json_list) :
                                                    HasOutput(e.json_list[j])}}
                        /\ \A i, j \in 1..Len(d) : d[i] = d[j] => i = j
                ELSE TRUE)
    /\ [][next_id' = next_id + 1 =>
            \E source_md5 \in {md5sum(Apk1), md5sum(Apk2)}, signed_apk \in Outputs :
                LET x == add_task_to_index(load_index(index_file), source_md5,
                            [task_id |-> next_id', pkg_name |-> "p",
                             so_architecture |-> "arm64-v8a",
                             signed_apk_path |-> next_id',
                             file_md5_after |-> md5sum(signed_apk), timestamp |-> clock'],
                            md5sum(signed_apk))
                IN /\ index_file' = save_index(x)
                   /\ load_index(save_index(x)) = x
                   /\ LoadResults(save_index(x)) = {x}]_vars

\* GET /index has answered for a document with a list of three tasks with
\* two outputs under one key and a single task with an empty output md5
\* under the other; the derived md5s of the list come in another order than
\* in the list
C34_Witness ==
    /\ IsSome(query) /\ Get(query)[1] = "index" /\ Get(response).status_code = 200
    /\ \E k1, k2 \in DOMAIN index_file.data :
          LET e1 == index_file.data[k1]
              e2 == index_file.data[k2]
          IN /\ IsList(e1) /\ Len(e1.json_list) = 3
             /\ Len(Loaded[k1].derived_md5s) = 2
             /\ Loaded[k1].derived_md5s[1] # e1.json_list[1].file_md5_after
             /\ IsTask(e2) /\ "file_md5_after" \in DOMAIN e2
             /\ Loaded[k2].derived_md5s = <<>>

\* an index update has rewritten a document that held a list, and GET /index
\* returns the rewritten document as it is
C34_RoundTripWitness ==
    /\ next_id > 0
    /\ IsSome(query) /\ Get(query)[1] = "index" /\ Get(response).status_code = 200
    /\ Loaded = index_file.data

\* C36: when add_task_to_index returns, the task entry it was given is among
\* the tasks of the source's entry, whatever the timestamps of the entries
\* that were there.
C36_NewEntryKept ==
    \A t \in TaskIds :
        proc[t].pc = "save_index" =>
            \E i \in 1..Len(Get(proc[t].index)[args[t].file_md5].tasks) :
                Get(proc[t].index)[args[t].file_md5].tasks[i] = Get(proc[t].task_entry)

\* C35: for every COMPLETE task, each item of so_md5_after is the md5 of
\* the file that lib/<so_architecture>/<so_name> of the task's signed
\* package holds, and the signed package differs from the package the task
\* was given only in the slots of the task's own so files with a non-blank
\* url.
C35_OutputHoldsOwnFiles ==
    \A t \in TaskIds :
        tasks[t].status = COMPLETE =>
            LET out == processed[t].libs
                given == uploads[args[t].apk_path].data.libs
                after == Get(tasks[t].so_md5_after)
                valid == valid_so_files(args[t].so_files)
                own == {Slot(args[t].so_architecture, valid[i][1]) : i \in 1..Len(valid)}
            IN /\ \A i \in 1..Len(after) :
                     /\ out[Slot(args[t].so_architecture, after[i][1])] # NoFile
                     /\ md5sumSo(out[Slot(args[t].so_architecture, after[i][1])]) = after[i][2]
               /\ \A s \in DOMAIN out : out[s] # given[s] => s \in own

\* C37: file_md5_before of every task, and the file_md5 its pipeline is
\* given, is the md5 of the file at the task's apk_path; upload_apk creates
\* nothing for an md5 of the client that is not the md5 of the stored file.
C37_InputHashIsDigest ==
    /\ \A t \in TaskIds :
          /\ args[t].apk_path \in DOMAIN uploads
          /\ tasks[t].file_md5_before = md5sum(uploads[args[t].apk_path].data)
          /\ args[t].file_md5 = tasks[t].file_md5_before
    /\ \A r \in ClientUploads :
          (IsSome(r.md5) /\ Lower(Get(r.md5)) # md5sum(r.file)) =>
              ~ENABLED (upload_apk(r) /\ next_id' # next_id)

\* a task of upload_apk and a task exist_pkg created for the upper-case md5
\* of the same package are both COMPLETE, each with its own copy of the file
C37_Witness ==
    /\ DOMAIN tasks = {1, 2}
    /\ tasks[1].filename = "app.apk" /\ tasks[2].filename = FileName(uploads[1])
    /\ args[1].apk_path # args[2].apk_path
    /\ args[2].so_files = M_other
    /\ tasks[1].status = COMPLETE /\ tasks[2].status = COMPLETE
    /\ HasEvent(2, "decode")

\* upload_apk answers this request with an error
UploadFails(r) ==
    \/ r.so_architecture \notin SupportedArchitectures
    \/ r.so_files = <<>>
    \/ IsSome(r.md5) /\ ~ValidMd5Format(Get(r.md5))
    \/ IsSome(r.md5) /\ Lower(Get(r.md5)) # md5sum(r.file)
    \/ LoadRaises(index_file)

\* exist_pkg answers this request with an error
ExistFails(r) ==
    \/ r.so_architecture \notin SupportedArchitectures
    \/ r.so_files = <<>>
    \/ ~ValidMd5Format(r.md5)
    \/ LoadRaises(index_file)
    \/ IsNone(find_source_md5(Idx, Lower(r.md5)))
    \/ MatchingUploads(Get(find_source_md5(Idx, Lower(r.md5)))) = {}

\* C38: a request that upload_apk or exist_pkg answers with an error leaves
\* the tasks, the index file and the upload directory as they were and
\* starts no process_apk_task.
C38_RejectionChangesNothing ==
    /\ \A r \in UploadRequests :
          UploadFails(r) =>
              ~ENABLED (upload_apk(r) /\ <<tasks, index_file, uploads, proc>>'
                                             # <<tasks, index_file, uploads, proc>>)
    /\ \A r \in ExistRequests :
          ExistFails(r) =>
              ~ENABLED (exist_pkg(r) /\ <<tasks, index_file, uploads, proc>>'
                                            # <<tasks, index_file, uploads, proc>>)

\* the part of C38 for the causes it lists: every cause but a failing
\* load_index in upload_apk
C38_ListedRejections ==
    /\ \A r \in UploadRequests \cup ClientUploads :
          (UploadFails(r) /\ ~LoadRaises(index_file)) =>
              ~ENABLED (upload_apk(r) /\ vars' # vars)
    /\ \A r \in ExistRequests :
          ExistFails(r) => ~ENABLED (exist_pkg(r) /\ vars' # vars)

\* C39: GET /download/{task_id} answers 404 for an id that is no task and
\* 400 for a task that is not COMPLETE, and sends the signed package of the
\* task for a COMPLETE one; for every COMPLETE task the signed package
\* <task_id>_signed.apk is in the processed directory.
C39_DownloadOnlyComplete ==
    /\ [](\A t \in TaskIds :
            tasks[t].status = COMPLETE =>
                t \in DOMAIN processed /\ processed[t].ok /\ processed[t].resigned)
    /\ [][\A id \in StatusIds :
            (query' = Some(<<"download", id, None>>) /\ UNCHANGED <<tasks, proc, next_id>>) =>
                LET answer == Get(response') IN
                /\ id \notin TaskIds => answer.status_code = 404
                /\ (id \in TaskIds /\ tasks[id].status # COMPLETE) =>
                      answer.status_code = 400
                /\ (id \in TaskIds /\ tasks[id].status = COMPLETE) =>
                      /\ answer.status_code = 200
                      /\ answer.body.file = processed[id]]_vars

\* GET /download has sent the signed package of the COMPLETE task 2 while
\* task 1 is FAILED with a signed package in the processed directory
C39_Witness ==
    /\ query = Some(<<"download", 2, None>>)
    /\ Get(response).status_code = 200
    /\ tasks[2].status = COMPLETE
    /\ tasks[1].status = FAILED /\ 1 \in DOMAIN processed

====
